---- MODULE Spec2Model ----
(***************************************************************************)
(* Signed links and slot availability of the scheduling application.      *)
(*                                                                         *)
(* Time is counted in minutes.  Instant 0 is 00:00 UTC of day 0, a Friday; *)
(* day 2 is the Sunday on which the host timezone may change its offset.   *)
(* A "zoned" value is the host wall clock read as minutes since 00:00 of   *)
(* day 0 (what toZonedTime returns: a Date whose local fields show the     *)
(* host wall clock).  A date label "yyyy-MM-dd" is the day number.         *)
(***************************************************************************)
EXTENDS Integers, Sequences, FiniteSets, TLC

\* ---------------------------------------------------------------- bounds
\* appSettings.maxDaysOut: the look-ahead window has MaxDaysOut + 1 days.
MaxDaysOut == 3
\* Longest free-busy answer of the calendar collaborator.
MaxBusy == 2
\* Number of times the clock advances while a link is in a guest's hands.
MaxTicks == 1

\* ------------------------------------------------------------- variables
VARIABLES
  hostTz,            \* HOST_TIMEZONE: its offsets around the modelled days
  sysTz,             \* timezone of the server process: "UTC" or "host"
  rules,             \* availability.rules.json
  minNoticeMinutes,  \* appSettings.minNoticeMinutes
  now,               \* Date.now(), in minutes
  avail,             \* last answer of getAvailabilityByDate, with its inputs
  secret,            \* process.env.SIGNING_SECRET
  link,              \* a signed link in a guest's hands
  check,             \* what decoding and verifying that link returned
  calendarIds,       \* process.env.GOOGLE_CALENDAR_ID, as the list of its ids
  links,             \* management links of the last confirmed booking
  response,          \* the last response of a route handler, with its request
  calls,             \* calendar mutations that request issued, in order
  aliasStore,        \* the alias store file (.cache/manage-aliases.json)
  aliasOp,           \* the last call of the alias store, with what it returned
  lastIssued,        \* the last registerManageLinkAlias call that returned an alias
  expiredSeen,       \* aliases resolve found past their expiresAt since the last purge
  fs,                \* the directory of the store file and the files in it
  procs,             \* the alias store call each server process is in
  event,             \* the booking's event in the calendar: active or deleted
  replaced,          \* link sets a successful reschedule has replaced
  request,           \* the guest's latest request with a link
  bookers,           \* concurrent POST /api/book requests and the calendar's events
  resolution         \* the blocked mock slots and the latest availability resolution

\* --------------------------------------------------------- configuration
MinutesPerDay == 1440
MinutesPerHour == 60

WEEKDAY_INDEX ==
  [sunday |-> 0, monday |-> 1, tuesday |-> 2, wednesday |-> 3,
   thursday |-> 4, friday |-> 5, saturday |-> 6]

\* America/Los_Angeles around the modelled days: no change (PST), the autumn
\* change (PDT to PST) and the spring change (PST to PDT), at 02:00 host time
\* of the Sunday (day 2): 09:00Z coming from PDT, 10:00Z coming from PST.
HostTimezones ==
  { [name |-> "PST", before |-> -480, after |-> -480, at |-> 0],
    [name |-> "fallBack", before |-> -420, after |-> -480,
     at |-> 2 * MinutesPerDay + 540],
    [name |-> "springForward", before |-> -480, after |-> -420,
     at |-> 2 * MinutesPerDay + 600] }

SystemTimezones == {"UTC", "host"}

Rule(weekday, start, end) == [weekday |-> weekday, start |-> start, end |-> end]

\* Rule tables: business hours on weekdays, the single Wednesday rule, and a
\* table whose windows are not multiples of the meeting durations.
WeekdayRules ==
  << Rule("monday", 540, 1020), Rule("tuesday", 540, 1020),
     Rule("wednesday", 540, 1020), Rule("thursday", 540, 1020),
     Rule("friday", 540, 1020) >>
WednesdayRule == << Rule("wednesday", 540, 1020) >>
OddRules ==
  << Rule("monday", 570, 1000), Rule("wednesday", 540, 1020),
     Rule("saturday", 600, 795), Rule("sunday", 600, 795),
     Rule("monday", 600, 660) >>
RuleTables == {WeekdayRules, WednesdayRule, OddRules}

\* meeting_types.json
MeetingTypes ==
  << [id |-> "intro-30", durationMinutes |-> 30, isActive |-> TRUE],
     [id |-> "deep-45", durationMinutes |-> 45, isActive |-> TRUE],
     [id |-> "legacy-60", durationMinutes |-> 60, isActive |-> FALSE] >>
MeetingTypeIds == {MeetingTypes[i].id : i \in DOMAIN MeetingTypes} \cup {"unknown"}

NoMeetingType == [id |-> "", durationMinutes |-> 0, isActive |-> FALSE]

\* ------------------------------------------------ date-fns / date-fns-tz
HostOffsetAt(t) == IF t < hostTz.at THEN hostTz.before ELSE hostTz.after

\* toZonedTime(date, HOST_TIMEZONE): the host wall clock of an instant.
ToZonedTime(t) == t + HostOffsetAt(t)

\* fromZonedTime(`${dateLabel}T${HH:mm}:00`, HOST_TIMEZONE): the instant of a
\* host wall-clock time.  The wall times used (00:00 and the rule times) are
\* outside the hour the offset change skips or repeats.
\* (FromZonedTimeAsUtc reads the wall time as if it were UTC.)
FromZonedTimeAsUtc(w) == w
FromZonedTime(w) ==
  IF w - hostTz.before < hostTz.at THEN w - hostTz.before ELSE w - hostTz.after

\* format(zoned, "yyyy-MM-dd"), getHours() and getDay() read the local fields
\* (day 0 is a Friday, getDay() = 5).
FormatDate(w) == w \div MinutesPerDay
GetHours(w) == (w % MinutesPerDay) \div MinutesPerHour
GetDay(w) == ((w \div MinutesPerDay) + 5) % 7

AddMinutes(t, m) == t + m

\* addDays(date, n) is setDate(getDate() + n) in the timezone of the process:
\* n * 24 h under UTC, the same wall-clock time n days on under the host zone.
AddDays(t, n) ==
  IF sysTz = "UTC" THEN t + n * MinutesPerDay
  ELSE FromZonedTime(ToZonedTime(t) + n * MinutesPerDay)

\* addDays on a zoned value moves its local date fields.
AddDaysZoned(w, n) == w + n * MinutesPerDay

\* Date.prototype.toISOString(): "yyyy-MM-dd" + "T" + "HH:mm:ss.sssZ" in UTC.
ToISOString(t) == [date |-> t \div MinutesPerDay, time |-> t % MinutesPerDay]
\* Date.parse / new Date(iso)
DateParseIso(iso) == iso.date * MinutesPerDay + iso.time
\* iso.slice(0, 10)
IsoDateKey(iso) == iso.date

\* ------------------------------------------------------------ Slot Engine
GetMeetingTypeByIdFrom(id, i) ==
  MeetingTypes[i].id = id /\ \A j \in 1..(i - 1) : MeetingTypes[j].id # id

GetMeetingTypeById(id) ==
  IF \E i \in DOMAIN MeetingTypes : MeetingTypes[i].id = id
  THEN MeetingTypes[CHOOSE i \in DOMAIN MeetingTypes : GetMeetingTypeByIdFrom(id, i)]
  ELSE NoMeetingType

NoRule == Rule("", 0, 0)

GetRuleForDate(dateLabel) ==
  LET midnightUtc == FromZonedTime(dateLabel * MinutesPerDay)
      hostDate == ToZonedTime(midnightUtc)
      weekdayIndex == GetDay(hostDate)
      matches == {i \in DOMAIN rules : WEEKDAY_INDEX[rules[i].weekday] = weekdayIndex}
  IN IF matches = {} THEN NoRule
     ELSE rules[CHOOSE i \in matches : \A j \in matches : i <= j]

SlotOverlapsBusy(startUtc, endUtc, busyIntervals) ==
  \E i \in DOMAIN busyIntervals :
    startUtc < busyIntervals[i].end /\ endUtc > busyIntervals[i].start

\* cursorInHost.getHours() === 12 (IsLunchBreakUtc reads the hour in UTC).
IsLunchBreakUtc(cursor) == GetHours(cursor) = 12
IsLunchBreak(cursor) == GetHours(ToZonedTime(cursor)) = 12

\* The loop of buildSlotsForDate without its "slotEnd > endUtc" exit.
RECURSIVE SlotLoopPartial(_, _, _, _, _, _)
SlotLoopPartial(cursor, endUtc, durationMinutes, minStartUtc, busyIntervals, slots) ==
  IF ~(cursor < endUtc) THEN slots
  ELSE
    LET slotEnd == AddMinutes(cursor, durationMinutes)
        keep == /\ cursor >= minStartUtc
                /\ ~IsLunchBreak(cursor)
                /\ ~SlotOverlapsBusy(cursor, slotEnd, busyIntervals)
        next == IF keep
                THEN Append(slots, [start |-> ToISOString(cursor),
                                    end |-> ToISOString(slotEnd)])
                ELSE slots
    IN SlotLoopPartial(slotEnd, endUtc, durationMinutes, minStartUtc, busyIntervals, next)

RECURSIVE SlotLoop(_, _, _, _, _, _)
SlotLoop(cursor, endUtc, durationMinutes, minStartUtc, busyIntervals, slots) ==
  IF ~(cursor < endUtc) THEN slots
  ELSE
    LET slotEnd == AddMinutes(cursor, durationMinutes) IN
    IF slotEnd > endUtc THEN slots
    ELSE
      LET keep == /\ cursor >= minStartUtc
                  /\ ~IsLunchBreak(cursor)
                  /\ ~SlotOverlapsBusy(cursor, slotEnd, busyIntervals)
          next == IF keep
                  THEN Append(slots, [start |-> ToISOString(cursor),
                                      end |-> ToISOString(slotEnd)])
                  ELSE slots
      IN SlotLoop(slotEnd, endUtc, durationMinutes, minStartUtc, busyIntervals, next)

BuildSlotsForDate(meetingType, dateLabel, nowUtc, busyIntervals) ==
  LET rule == GetRuleForDate(dateLabel) IN
  IF rule = NoRule THEN << >>
  ELSE
    LET startUtc == FromZonedTime(dateLabel * MinutesPerDay + rule.start)
        endUtc == FromZonedTime(dateLabel * MinutesPerDay + rule.end)
        minStartUtc == AddMinutes(nowUtc, minNoticeMinutes)
    IN SlotLoop(startUtc, endUtc, meetingType.durationMinutes, minStartUtc,
                busyIntervals, << >>)

\* busyIntervals.filter(...)
FilterBusy(busyIntervals, from, to) ==
  SelectSeq(busyIntervals, LAMBDA interval : interval.start < to /\ interval.end > from)

RECURSIVE CalendarLoop(_, _, _, _, _, _)
CalendarLoop(offset, meetingType, startDateUtc, nowUtc, busyIntervals, availability) ==
  IF offset > MaxDaysOut THEN availability
  ELSE
    LET dayStartUtc == AddDays(startDateUtc, offset)
        dayInHostTz == ToZonedTime(dayStartUtc)
        dateLabel == FormatDate(dayInHostTz)
        nextDayStartUtc == AddDays(dayStartUtc, 1)
        busyForDay == FilterBusy(busyIntervals, dayStartUtc, nextDayStartUtc)
        slotsForDate == BuildSlotsForDate(meetingType, dateLabel, nowUtc, busyForDay)
    IN CalendarLoop(offset + 1, meetingType, startDateUtc, nowUtc, busyIntervals,
         [d \in (DOMAIN availability) \cup {dateLabel} |->
            IF d = dateLabel THEN slotsForDate ELSE availability[d]])

BuildAvailabilityCalendar(meetingType, startDateUtc, nowUtc, busyIntervals) ==
  CalendarLoop(0, meetingType, startDateUtc, nowUtc, busyIntervals, << >>)

GetAvailabilityWindow(nowUtc) ==
  LET hostNow == ToZonedTime(nowUtc)
      startLabel == FormatDate(hostNow)
      startDateUtc == FromZonedTime(startLabel * MinutesPerDay)
      lastHostDate == AddDaysZoned(hostNow, MaxDaysOut)
      lastLabel == FormatDate(lastHostDate)
      lastDayStartUtc == FromZonedTime(lastLabel * MinutesPerDay)
      endDateUtc == AddDays(lastDayStartUtc, 1)
  IN [startDateUtc |-> startDateUtc, endDateUtc |-> endDateUtc]

\* sorted = intervals.sort((a, b) => a.start - b.start): a stable sort.
RECURSIVE InsertByStart(_, _)
InsertByStart(sorted, interval) ==
  IF sorted = << >> THEN << interval >>
  ELSE IF sorted[Len(sorted)].start <= interval.start THEN Append(sorted, interval)
  ELSE Append(InsertByStart(SubSeq(sorted, 1, Len(sorted) - 1), interval),
              sorted[Len(sorted)])

RECURSIVE SortByStart(_)
SortByStart(intervals) ==
  IF intervals = << >> THEN << >>
  ELSE InsertByStart(SortByStart(SubSeq(intervals, 1, Len(intervals) - 1)),
                     intervals[Len(intervals)])

\* current.start <= previous.end
StartsWithin(current, previous) == current.start <= previous.end

RECURSIVE MergeLoop(_, _, _)
MergeLoop(sorted, index, merged) ==
  IF index > Len(sorted) THEN merged
  ELSE
    LET current == sorted[index]
        previous == merged[Len(merged)]
    IN IF StartsWithin(current, previous)
       THEN MergeLoop(sorted, index + 1,
              IF current.end > previous.end
              THEN [merged EXCEPT ![Len(merged)].end = current.end]
              ELSE merged)
       ELSE MergeLoop(sorted, index + 1, Append(merged, current))

MergeBusyIntervals(intervals) ==
  IF Len(intervals) = 0 THEN << >>
  ELSE LET sorted == SortByStart(intervals) IN MergeLoop(sorted, 2, << sorted[1] >>)

\* The free-busy answer is the ranges of all calendars in Object.values order.
CollectBusyIntervals(freeBusy) ==
  MergeBusyIntervals(SelectSeq(freeBusy, LAMBDA range : ~(range.end <= range.start)))

\* getAvailabilityByDate for a configured meeting type and a free-busy answer
\* (a failing collaborator makes it throw: see the callers).
GetAvailabilityByDate(meetingTypeId, nowUtc, freeBusy) ==
  LET meetingType == GetMeetingTypeById(meetingTypeId) IN
  IF meetingType = NoMeetingType THEN << >>
  ELSE BuildAvailabilityCalendar(meetingType,
         GetAvailabilityWindow(nowUtc).startDateUtc, nowUtc,
         CollectBusyIntervals(freeBusy))

\* ------------------------------------------------------------ Link Signer
\* Text is a sequence of character codes.  A token is a sequence of symbols:
\* the 64 base64url characters are 0..63 (in alphabet order), "." is Dot, and
\* the characters of an encoded signature are the symbols from TagBase on.
Ch == [quote |-> 34, backslash |-> 92, lbrace |-> 123, rbrace |-> 125,
       colon |-> 58, comma |-> 44, zero |-> 48, T |-> 84, Z |-> 90, space |-> 32,
       minus |-> 45]
Dot == 64
TagBase == 65

\* undefined (a field that is absent); no text holds the code -1.
Undefined == << -1 >>

\* The payload's keys in the order generateSignedLink and its callers write
\* them, and their names in the JSON text (one letter each, to keep it short).
FieldOrder ==
  << "action", "expiresAt", "meetingTypeId", "eventId", "guestEmail",
     "guestName", "calendarId", "slotStart", "slotEnd" >>
Fields == {FieldOrder[i] : i \in DOMAIN FieldOrder}
KeyText ==
  [action |-> << 97 >>, expiresAt |-> << 120 >>, meetingTypeId |-> << 116 >>,
   eventId |-> << 101 >>, guestEmail |-> << 103 >>, guestName |-> << 110 >>,
   calendarId |-> << 99 >>, slotStart |-> << 115 >>, slotEnd |-> << 100 >>]

EmptyPayload == [f \in Fields |-> Undefined]

RECURSIVE Digits(_, _)
Digits(n, width) ==
  IF width = 0 THEN << >>
  ELSE Append(Digits(n \div 10, width - 1), Ch.zero + (n % 10))

RECURSIVE Number(_)
Number(digits) ==
  IF digits = << >> THEN 0
  ELSE 10 * Number(SubSeq(digits, 1, Len(digits) - 1))
       + (digits[Len(digits)] - Ch.zero)

IsDigits(text) == \A i \in DOMAIN text : text[i] \in Ch.zero..(Ch.zero + 9)

\* The text of an ISO instant: "dd" + "T" + "mmmm" + "Z".
IsoText(iso) == Digits(iso.date, 2) \o << Ch.T >> \o Digits(iso.time, 4) \o << Ch.Z >>

\* The text of an instant as local time of the host with its UTC offset:
\* "dd" + "T" + "mmmm" + "-" + "hh".
OffsetText(t) ==
  LET w == ToZonedTime(t) IN
  Digits(w \div MinutesPerDay, 2) \o << Ch.T >> \o Digits(w % MinutesPerDay, 4)
    \o << Ch.minus >> \o Digits((0 - HostOffsetAt(t)) \div MinutesPerHour, 2)

\* start.dateTime of the provider's answer as mapGoogleEventPayload returns
\* it: the text the request sent (also the fallback when the answer has
\* none), or the same instant in the time zone of the calendar.
ProviderForms == {"utc", "offset"}
EventDateTime(iso, form) ==
  IF form = "utc" THEN IsoText(iso) ELSE OffsetText(DateParseIso(iso))

\* Date.parse(text): NaN unless the text is an ISO instant.
NaN == [finite |-> FALSE, value |-> 0]
DateParse(text) ==
  IF /\ Len(text) = 8
     /\ text[3] = Ch.T /\ text[8] = Ch.Z
     /\ IsDigits(SubSeq(text, 1, 2)) /\ IsDigits(SubSeq(text, 4, 7))
     /\ Number(SubSeq(text, 4, 7)) < MinutesPerDay
  THEN [finite |-> TRUE,
        value |-> Number(SubSeq(text, 1, 2)) * MinutesPerDay + Number(SubSeq(text, 4, 7))]
  ELSE NaN

\* JSON.stringify of a string value: quotes and backslashes are escaped.
\* (JsonEscapeNothing leaves them as they are.)
JsonEscapeNothing(text) == text
RECURSIVE JsonEscape(_)
JsonEscape(text) ==
  IF text = << >> THEN << >>
  ELSE (IF Head(text) \in {Ch.quote, Ch.backslash}
        THEN << Ch.backslash, Head(text) >> ELSE << Head(text) >>)
       \o JsonEscape(Tail(text))

JsonString(text) == << Ch.quote >> \o JsonEscape(text) \o << Ch.quote >>

\* JSON.stringify(payload): members in key order; undefined fields are left out.
RECURSIVE JsonMembers(_, _, _)
JsonMembers(payload, i, first) ==
  IF i > Len(FieldOrder) THEN << >>
  ELSE LET f == FieldOrder[i] IN
       IF payload[f] = Undefined THEN JsonMembers(payload, i + 1, first)
       ELSE (IF first THEN << >> ELSE << Ch.comma >>)
            \o JsonString(KeyText[f]) \o << Ch.colon >> \o JsonString(payload[f])
            \o JsonMembers(payload, i + 1, FALSE)

JsonStringify(payload) ==
  << Ch.lbrace >> \o JsonMembers(payload, 1, TRUE) \o << Ch.rbrace >>

\* Reading a JSON string whose opening quote is at i - 1: the text up to the
\* closing quote and the index after it; ok is FALSE on text JSON.parse rejects.
RECURSIVE JsonScanString(_, _, _)
JsonScanString(text, i, acc) ==
  IF i > Len(text) THEN [ok |-> FALSE, value |-> << >>, next |-> i]
  ELSE IF text[i] = Ch.quote THEN [ok |-> TRUE, value |-> acc, next |-> i + 1]
  ELSE IF text[i] = Ch.backslash
       THEN IF i + 1 <= Len(text) /\ text[i + 1] \in {Ch.quote, Ch.backslash}
            THEN JsonScanString(text, i + 2, Append(acc, text[i + 1]))
            ELSE [ok |-> FALSE, value |-> << >>, next |-> i]
  ELSE IF text[i] < Ch.space \/ text[i] > 127
       THEN [ok |-> FALSE, value |-> << >>, next |-> i]
  ELSE JsonScanString(text, i + 1, Append(acc, text[i]))

JsonReadString(text, i) ==
  IF i <= Len(text) /\ text[i] = Ch.quote THEN JsonScanString(text, i + 1, << >>)
  ELSE [ok |-> FALSE, value |-> << >>, next |-> i]

\* The object with member key := value added (a later member wins).
WithMember(obj, key, value) ==
  IF \E f \in Fields : KeyText[f] = key
  THEN [obj EXCEPT ![CHOOSE f \in Fields : KeyText[f] = key] = value]
  ELSE obj

\* The members of an object from index i on, up to the closing brace.
RECURSIVE JsonParseMembers(_, _, _)
JsonParseMembers(text, i, obj) ==
  LET key == JsonReadString(text, i) IN
  IF ~key.ok \/ key.next > Len(text) \/ text[key.next] # Ch.colon THEN << >>
  ELSE LET val == JsonReadString(text, key.next + 1) IN
       IF ~val.ok \/ val.next > Len(text) THEN << >>
       ELSE LET obj2 == WithMember(obj, key.value, val.value) IN
            IF text[val.next] = Ch.rbrace
            THEN (IF val.next = Len(text) THEN << obj2 >> ELSE << >>)
            ELSE IF text[val.next] = Ch.comma
            THEN JsonParseMembers(text, val.next + 1, obj2)
            ELSE << >>

\* JSON.parse(text) as SignedLinkPayload: << payload >>, or << >> when it throws.
\* Only objects with string members are read; other JSON counts as rejected.
JsonParse(text) ==
  IF Len(text) < 2 \/ text[1] # Ch.lbrace THEN << >>
  ELSE IF Len(text) = 2
       THEN (IF text[2] = Ch.rbrace THEN << EmptyPayload >> ELSE << >>)
  ELSE JsonParseMembers(text, 2, EmptyPayload)

\* buffer.toString("base64url"): three bytes make four characters, no padding.
RECURSIVE Base64UrlEncode(_)
Base64UrlEncode(bytes) ==
  IF bytes = << >> THEN << >>
  ELSE IF Len(bytes) = 1
       THEN << bytes[1] \div 4, (bytes[1] % 4) * 16 >>
  ELSE IF Len(bytes) = 2
       THEN << bytes[1] \div 4, (bytes[1] % 4) * 16 + bytes[2] \div 16,
               (bytes[2] % 16) * 4 >>
  ELSE << bytes[1] \div 4, (bytes[1] % 4) * 16 + bytes[2] \div 16,
          (bytes[2] % 16) * 4 + bytes[3] \div 64, bytes[3] % 64 >>
       \o Base64UrlEncode(SubSeq(bytes, 4, Len(bytes)))

\* Buffer.from(value, "base64url"): four characters make three bytes; a tail
\* of two or three characters makes one or two bytes, a tail of one none.
RECURSIVE Base64UrlDecode(_)
Base64UrlDecode(chars) ==
  IF Len(chars) < 2 THEN << >>
  ELSE IF Len(chars) = 2
       THEN << chars[1] * 4 + chars[2] \div 16 >>
  ELSE IF Len(chars) = 3
       THEN << chars[1] * 4 + chars[2] \div 16,
               (chars[2] % 16) * 16 + chars[3] \div 4 >>
  ELSE << chars[1] * 4 + chars[2] \div 16,
          (chars[2] % 16) * 16 + chars[3] \div 4,
          (chars[3] % 4) * 64 + chars[4] >>
       \o Base64UrlDecode(SubSeq(chars, 5, Len(chars)))

\* process.env.SIGNING_SECRET: unset (0) or a key.
SecretUnset == 0
Secrets == {SecretUnset, 1}

\* createHmac("sha256", secret).update(message).digest(): the tag of an ideal
\* MAC, a value that names its key and its message and that no other key or
\* message yields.
Hmac(key, message) == << key >> \o message

\* The base64url text of a digest, and the digest of such a text.  A text that
\* holds other symbols decodes to bytes that are no digest.
EncodeDigest(digest) == [i \in DOMAIN digest |-> digest[i] + TagBase]
DecodeDigest(chars) == [i \in DOMAIN chars |-> chars[i] - TagBase]

\* token.split("."): the pieces between the dots, in order.
DotsOf(token) == {i \in DOMAIN token : token[i] = Dot}
SortedDots(token) ==
  LET dots == DotsOf(token) IN
  [k \in 1..Cardinality(dots) |->
     CHOOSE i \in dots : Cardinality({j \in dots : j < i}) = k - 1]
Split(token) ==
  LET at == << 0 >> \o SortedDots(token) \o << Len(token) + 1 >> IN
  [k \in 1..(Len(at) - 1) |-> SubSeq(token, at[k] + 1, at[k + 1] - 1)]

\* timingSafeEqual(expected, provided) on buffers of one length.
\* (TimingSafeEqualLengthOnly compares the lengths alone.)
TimingSafeEqualLengthOnly(expected, provided) == Len(expected) = Len(provided)
TimingSafeEqual(expected, provided) == expected = provided

\* !Number.isFinite(expiresAt) || expiresAt < Date.now()
\* (ExpiryIgnored leaves out the comparison with Date.now().)
ExpiryIgnored(expiresAt, nowMs) == ~expiresAt.finite
ExpiryRejected(expiresAt, nowMs) == ~expiresAt.finite \/ expiresAt.value < nowMs

Threw == [kind |-> "throw", payload |-> EmptyPayload]
Null == [kind |-> "null", payload |-> EmptyPayload]
Some(payload) == [kind |-> "payload", payload |-> payload]

\* signLinkPayload(payload): the token, or << >> when getSigningSecret throws.
SignLinkPayload(payload, key) ==
  IF key = SecretUnset THEN << >>
  ELSE LET payloadEncoded == Base64UrlEncode(JsonStringify(payload))
           signatureEncoded == EncodeDigest(Hmac(key, payloadEncoded))
       IN payloadEncoded \o << Dot >> \o signatureEncoded

DecodeSignedLinkPayload(token) ==
  IF token = << >> THEN Null
  ELSE LET payloadEncoded == Split(token)[1] IN
       IF payloadEncoded = << >> THEN Null
       ELSE LET parsed == JsonParse(Base64UrlDecode(payloadEncoded)) IN
            IF parsed = << >> THEN Null ELSE Some(parsed[1])

\* A value a condition treats as false: undefined or the empty string.
Falsy(text) == text = Undefined \/ text = << >>

VerifySignedLink(token, key, nowMs) ==
  LET pieces == Split(token) IN
  IF token = << >> THEN Null
  ELSE IF Len(pieces) < 2 \/ pieces[1] = << >> \/ pieces[2] = << >> THEN Null
  ELSE IF key = SecretUnset THEN Threw
  ELSE
    LET expectedSignature == Hmac(key, pieces[1])
        providedSignature == DecodeDigest(pieces[2])
    IN IF Len(expectedSignature) # Len(providedSignature) THEN Null
       ELSE IF ~TimingSafeEqual(expectedSignature, providedSignature) THEN Null
       ELSE LET decoded == DecodeSignedLinkPayload(token) IN
            IF decoded.kind # "payload" THEN Null
            ELSE LET payload == decoded.payload
                     expiresAt == IF payload.expiresAt = Undefined THEN NaN
                                  ELSE DateParse(payload.expiresAt)
                 IN IF ExpiryRejected(expiresAt, nowMs) THEN Null
                    ELSE IF \/ Falsy(payload.action) \/ Falsy(payload.meetingTypeId)
                            \/ Falsy(payload.eventId) \/ Falsy(payload.guestEmail)
                    THEN Null
                    ELSE Some(payload)

\* ----------------------------------------------------------------- inputs
\* Instants at which requests arrive: Saturday 07:00 PST (the window holds the
\* Sunday of the offset change), Friday 19:00 PST (UTC is a day ahead of the
\* host), Wednesday 08:00 PST and Wednesday 10:10 PST.
NowInputs ==
  { 1 * MinutesPerDay + 900, 1 * MinutesPerDay + 180,
    5 * MinutesPerDay + 960, 5 * MinutesPerDay + 1090 }

MinNoticeOptions == {0, 120}

Interval(start, end) == [start |-> start, end |-> end]

\* ------------------------------------------------- availability fallback
\* createBlockedMockSlots(), evaluated when the module is loaded: the blocked
\* start times of two host dates, in Object.entries order.
CreateBlockedMockSlots(loadedAt) ==
  LET hostNow == ToZonedTime(loadedAt)
      first == FormatDate(AddDaysZoned(hostNow, 2))
      second == FormatDate(AddDaysZoned(hostNow, 9))
  IN << [dateLabel |-> first, blockedStarts |-> << 540, 570, 600 >>],
        [dateLabel |-> second, blockedStarts |-> << 780, 810 >> ] >>

BlockedIntervals(entry, durationMinutes) ==
  [i \in DOMAIN entry.blockedStarts |->
     LET startUtc == FromZonedTime(entry.dateLabel * MinutesPerDay + entry.blockedStarts[i])
     IN Interval(startUtc, AddMinutes(startUtc, durationMinutes))]

GetMockBusyIntervals(durationMinutes, blocked) ==
  BlockedIntervals(blocked[1], durationMinutes) \o BlockedIntervals(blocked[2], durationMinutes)

GetMockSlotsByDate(meetingTypeId, nowUtc, blocked) ==
  LET meetingType == GetMeetingTypeById(meetingTypeId) IN
  IF meetingType = NoMeetingType THEN << >>
  ELSE BuildAvailabilityCalendar(meetingType,
         GetAvailabilityWindow(nowUtc).startDateUtc, nowUtc,
         GetMockBusyIntervals(meetingType.durationMinutes, blocked))

\* What the calendar collaborator does for a lookup: it answers with busy
\* ranges or throws an error.
AnswerOf(freeBusy) == [ok |-> TRUE, freeBusy |-> freeBusy, kind |-> "", message |-> << >>]
Thrown(kind, message) == [ok |-> FALSE, freeBusy |-> << >>, kind |-> kind, message |-> message]
ErrorKinds ==
  { "Error", "TypeError", "GoogleApiError", "GoogleAuthError", "GoogleAuthConfigError",
    "GoogleCalendarConfigError" }
CalendarErrors ==
  { Thrown("GoogleCalendarConfigError", << "Missing calendar configuration" >>),
    Thrown("GoogleAuthError", << "invalid_grant: expired" >>),
    Thrown("GoogleApiError", << "Rate Limit Exceeded" >>),
    Thrown("TypeError", << "fetch failed" >>) }

AvailabilityResolution(slotsByDate, source, fallback, message) ==
  [slotsByDate |-> slotsByDate, source |-> source, fallback |-> fallback,
   message |-> message]
NoResolution == AvailabilityResolution(<< >>, "", FALSE, << >>)

\* The fallback without the blocked slots.
GetAvailabilityNoBlocks(meetingTypeId, nowUtc, answer, blocked) ==
  LET meetingType == GetMeetingTypeById(meetingTypeId) IN
  IF meetingType = NoMeetingType
  THEN AvailabilityResolution(<< >>, "mock", TRUE,
         << "Meeting type ", meetingTypeId, " is not configured." >>)
  ELSE IF answer.ok
  THEN AvailabilityResolution(
         GetAvailabilityByDate(meetingType.id, nowUtc, answer.freeBusy),
         "google", FALSE, << >>)
  ELSE AvailabilityResolution(
         GetAvailabilityByDate(meetingType.id, nowUtc, << >>),
         "mock", TRUE,
         IF answer.kind \in ErrorKinds THEN answer.message
         ELSE << "Unknown error fetching Google availability" >>)

GetAvailabilityWithFallback(meetingTypeId, nowUtc, answer, blocked) ==
  LET meetingType == GetMeetingTypeById(meetingTypeId) IN
  IF meetingType = NoMeetingType
  THEN AvailabilityResolution(<< >>, "mock", TRUE,
         << "Meeting type ", meetingTypeId, " is not configured." >>)
  ELSE IF answer.ok
  THEN AvailabilityResolution(
         GetAvailabilityByDate(meetingType.id, nowUtc, answer.freeBusy),
         "google", FALSE, << >>)
  ELSE AvailabilityResolution(
         GetMockSlotsByDate(meetingType.id, nowUtc, blocked),
         "mock", TRUE,
         IF answer.kind \in ErrorKinds THEN answer.message
         ELSE << "Unknown error fetching Google availability" >>)

ResolutionIdle(loadedAt) ==
  [blocked |-> CreateBlockedMockSlots(loadedAt), called |-> FALSE,
   meetingTypeId |-> "", at |-> 0, answer |-> AnswerOf(<< >>), result |-> NoResolution,
   served |-> << >>]

\* Busy ranges the calendar may report, on the first and the third day of the
\* window: 18:00-18:30Z, 18:30-19:15Z, 18:15-18:45Z, a range that ends
\* before it starts, and a range from 18:30Z of the third day to 08:00Z of the
\* day after it.
BusyPool(nowUtc) ==
  LET day0 == FormatDate(ToZonedTime(nowUtc)) * MinutesPerDay IN
  { Interval(day0 + k * MinutesPerDay + 1080, day0 + k * MinutesPerDay + 1110) : k \in {0, 2} }
  \cup
  { Interval(day0 + k * MinutesPerDay + 1110, day0 + k * MinutesPerDay + 1155) : k \in {0, 2} }
  \cup
  { Interval(day0 + k * MinutesPerDay + 1095, day0 + k * MinutesPerDay + 1125) : k \in {0, 2} }
  \cup
  { Interval(day0 + 1140, day0 + 1080) }
  \cup
  { Interval(day0 + 2 * MinutesPerDay + 1110, day0 + 3 * MinutesPerDay + 480) }

RECURSIVE SeqsUpTo(_, _)
SeqsUpTo(S, n) ==
  IF n = 0 THEN { << >> }
  ELSE LET shorter == SeqsUpTo(S, n - 1) IN
       shorter \cup { Append(q, x) : q \in {r \in shorter : Len(r) = n - 1},
                                      x \in S }

Range(q) == {q[i] : i \in DOMAIN q}

\* Free-busy answers: up to MaxBusy distinct ranges, in any order.
FreeBusyAnswers(nowUtc) ==
  {q \in SeqsUpTo(BusyPool(nowUtc), MaxBusy) : Cardinality(Range(q)) = Len(q)}

\* The instant at which the guest's link is signed at the earliest, and the
\* step of the clock while it is held.
SignEpoch == 1 * MinutesPerDay + 900
TickMinutes == MinutesPerHour

Text_i == << 105 >>
Text_e == << 101 >>
Text_g == << 103 >>
Text_p == << 112 >>
Text_name == << 74, Ch.quote, Ch.backslash >>
Text_notADate == << 122, 122 >>
Actions == [cancel |-> << 99 >>, reschedule |-> << 114 >>, manage |-> << 109 >>]

BasePayload(action, expiresAt) ==
  [EmptyPayload EXCEPT !.action = action, !.expiresAt = expiresAt,
                       !.meetingTypeId = Text_i, !.eventId = Text_e,
                       !.guestEmail = Text_g]

\* expiresAt of the payloads signed at an instant: five minutes before it, the
\* instant itself, one clock step after it, and a text that is no date.
ExpiryInputs(nowMs) ==
  { IsoText(ToISOString(nowMs - 5)), IsoText(ToISOString(nowMs)),
    IsoText(ToISOString(nowMs + TickMinutes)), Text_notADate }

\* Payloads handed to signLinkPayload: the required fields alone for each
\* action, all fields (a name with a quote and a backslash), and a payload
\* whose eventId is empty.
PayloadInputs(nowMs) ==
  UNION { { BasePayload(Actions.cancel, x), BasePayload(Actions.reschedule, x),
            BasePayload(Actions.manage, x),
            [BasePayload(Actions.cancel, x) EXCEPT
               !.guestName = Text_name, !.calendarId = Text_p,
               !.slotStart = IsoText(ToISOString(nowMs + MinutesPerDay)),
               !.slotEnd = IsoText(ToISOString(nowMs + MinutesPerDay + 30))],
            [BasePayload(Actions.cancel, x) EXCEPT !.eventId = << >>] }
          : x \in ExpiryInputs(nowMs) }

\* ------------------------------------------------------------ management links
\* DEFAULT_MANAGEMENT_LINK_TTL_MS: seven days.
DEFAULT_MANAGEMENT_LINK_TTL_MS == 7 * MinutesPerDay

\* The text of a meeting type id inside a payload (one letter each).
MeetingTypeIdText(id) ==
  CASE id = "intro-30" -> << 105 >>
    [] id = "deep-45" -> << 100 >>
    [] id = "legacy-60" -> << 108 >>
    [] OTHER -> << 117 >>

\* getMeetingTypeById(payload.meetingTypeId)
GetMeetingTypeByText(text) ==
  IF \E id \in MeetingTypeIds : MeetingTypeIdText(id) = text
  THEN GetMeetingTypeById(CHOOSE id \in MeetingTypeIds : MeetingTypeIdText(id) = text)
  ELSE NoMeetingType

\* generateSignedLink(action, payload): the token is << >> when signing throws.
GenerateSignedLink(action, payload, nowMs, key) ==
  LET expiresAt == IsoText(ToISOString(nowMs + DEFAULT_MANAGEMENT_LINK_TTL_MS)) IN
  [token |-> SignLinkPayload([payload EXCEPT !.action = action,
                                             !.expiresAt = expiresAt], key),
   expiresAt |-> expiresAt]

\* createManagementLinks(payload): each generateSignedLink call reads the
\* clock itself; reads are the three readings, in call order.
CreateManagementLinks(payload, reads, key) ==
  [cancel |-> GenerateSignedLink(Actions.cancel, payload, reads[1], key),
   reschedule |-> GenerateSignedLink(Actions.reschedule, payload, reads[2], key),
   manage |-> GenerateSignedLink(Actions.manage, payload, reads[3], key)]

\* The clock stands still during a call.
ClockStill(nowMs) == << nowMs, nowMs, nowMs >>

\* Readings of a clock that may advance by a minute between the calls.
ClockSteps == {0, 1}
ClockReads(nowMs) ==
  { << nowMs, nowMs + b, nowMs + b + c >> : b \in ClockSteps, c \in ClockSteps }

\* Bookings for which links are minted.
BookingPayloads ==
  { [EmptyPayload EXCEPT !.meetingTypeId = MeetingTypeIdText(id),
                         !.eventId = Text_e, !.guestEmail = Text_g,
                         !.guestName = Text_name, !.calendarId = calendarId,
                         !.slotStart = IsoText(ToISOString(start)),
                         !.slotEnd = IsoText(ToISOString(start + 30))] :
      id \in MeetingTypeIds, calendarId \in {Undefined, Text_p},
      start \in { 5 * MinutesPerDay + 1080, 5 * MinutesPerDay + 1110,
                  6 * MinutesPerDay + 1110 } }

NoSignedLink == [token |-> << >>, expiresAt |-> << >>]
LinksNone == [cancel |-> NoSignedLink, reschedule |-> NoSignedLink, manage |-> NoSignedLink]

\* The calendar ids of the environment: unset, or one id.
CalendarIdSettings == { << >>, << Text_p >> }

\* Where a collaborator fails during a request, and with which HTTP status of
\* the calendar provider.
Failure(at, status) == [at |-> at, status |-> status]
NoFailure == Failure("none", 0)
BookFailures ==
  { NoFailure, Failure("freeBusy", 500), Failure("createEvent", 500),
    Failure("alias", 0), Failure("updateEvent", 500) }
PatchFailures ==
  { NoFailure, Failure("freeBusy", 500), Failure("alias", 0),
    Failure("updateEvent", 404), Failure("updateEvent", 409),
    Failure("updateEvent", 500), Failure("secondUpdate", 500) }

\* Instants at which route handlers are called: Friday 19:00 PST and
\* Wednesday 08:00 PST.
RequestInstants == { 1 * MinutesPerDay + 180, 5 * MinutesPerDay + 960 }

\* The range 18:00-18:30Z of the host's current day.
BusyToday(nowUtc) ==
  LET day0 == FormatDate(ToZonedTime(nowUtc)) * MinutesPerDay IN
  Interval(day0 + 1080, day0 + 1110)

\* Free-busy answers during a request: nothing busy, or that range.
RequestBusyAnswers(nowUtc) == { << >>, << BusyToday(nowUtc) >> }

\* Slots a client asks for: the first and the last slot the engine shows on
\* the first day that has any when nothing is busy, the range the calendar
\* may report as busy, and a pair that is no slot.
RequestedSlots(meetingTypeId, nowUtc) ==
  LET free == GetAvailabilityByDate(meetingTypeId, nowUtc, << >>)
      days == {d \in DOMAIN free : free[d] # << >>}
      first == CHOOSE d \in days : \A e \in days : d <= e
  IN (IF days = {} THEN {} ELSE { free[first][1], free[first][Len(free[first])] })
     \cup
     { [start |-> ToISOString(BusyToday(nowUtc).start),
        end |-> ToISOString(BusyToday(nowUtc).end)],
       [start |-> ToISOString(nowUtc), end |-> ToISOString(nowUtc + 1)] }

\* The characters put in the place of character c of a token.
TamperChars(c) == {(c + 1) % 64, (c + 37) % 64, Dot} \ {c}

\* ------------------------------------------------------------ Alias Store
\* randomBytes(ALIAS_BYTE_LENGTH).toString("base64url"): eight characters.
ALIAS_BYTE_LENGTH == 6
MAX_GENERATION_ATTEMPTS == 5

GenerateAlias(bytes) == Base64UrlEncode(bytes)

\* Values randomBytes may return: ALIAS_BYTE_LENGTH bytes, the last one drawn.
RandomBytes == { [i \in 1..ALIAS_BYTE_LENGTH |-> IF i = ALIAS_BYTE_LENGTH THEN b ELSE 0]
                 : b \in 1..2 }
AliasPool == { GenerateAlias(bytes) : bytes \in RandomBytes }

\* What the generator yields on the attempts of one call: k times one value,
\* then another.
RandomDraws ==
  { [i \in 1..MAX_GENERATION_ATTEMPTS |-> IF i <= k THEN a ELSE b]
    : a \in RandomBytes, b \in RandomBytes, k \in {0, 1, MAX_GENERATION_ATTEMPTS} }

\* null, for an alias
NoAlias == Undefined

\* ManageLinkAliasRecord
AliasRecord(token, expiresAt, createdAt) ==
  [token |-> token, expiresAt |-> expiresAt, createdAt |-> createdAt]
NoRecord == AliasRecord(Undefined, Undefined, 0)

\* An entry of the records object; the object is the sequence of its entries
\* in Object.entries order (insertion order: aliases are no integer keys).
Entry(alias, record) == [alias |-> alias, record |-> record]

HasAlias(records, alias) == \E i \in DOMAIN records : records[i].alias = alias
RecordOf(records, alias) ==
  IF HasAlias(records, alias)
  THEN records[CHOOSE i \in DOMAIN records : records[i].alias = alias].record
  ELSE NoRecord
\* delete records[alias]
DeleteAlias(records, alias) == SelectSeq(records, LAMBDA entry : entry.alias # alias)

\* isExpired(expiresAt, now) (IsExpiredReversed has the comparison reversed).
IsExpiredReversed(expiresAt, nowMs) ==
  LET timestamp == IF expiresAt = Undefined THEN NaN ELSE DateParse(expiresAt) IN
  IF ~timestamp.finite THEN FALSE ELSE timestamp.value >= nowMs
IsExpired(expiresAt, nowMs) ==
  LET timestamp == IF expiresAt = Undefined THEN NaN ELSE DateParse(expiresAt) IN
  IF ~timestamp.finite THEN FALSE ELSE timestamp.value <= nowMs

\* The store file: absent, or a text.  A JSON text is the sequence of its
\* parts: the opening brace, one part per member, the closing brace.
JsonPart(sym, alias, record) == [sym |-> sym, alias |-> alias, record |-> record]
JsonOpen == JsonPart("{", << >>, NoRecord)
JsonClose == JsonPart("}", << >>, NoRecord)
FileMissing == [exists |-> FALSE, text |-> << >>]
FileOf(text) == [exists |-> TRUE, text |-> text]

\* JSON.stringify(records, null, 2)
SerializeRecords(records) ==
  << JsonOpen >>
  \o [i \in DOMAIN records |-> JsonPart("member", records[i].alias, records[i].record)]
  \o << JsonClose >>

\* JSON.parse(fileContents): ok is FALSE when it throws a SyntaxError.
ParseRecords(text) ==
  IF /\ Len(text) >= 2
     /\ text[1] = JsonOpen /\ text[Len(text)] = JsonClose
     /\ \A i \in 2..(Len(text) - 1) : text[i].sym = "member"
  THEN [ok |-> TRUE, members |-> SubSeq(text, 2, Len(text) - 1)]
  ELSE [ok |-> FALSE, members |-> << >>]

\* normalizeRecords(candidate): members without a string token or expiresAt
\* are dropped.
NormalizeRecords(members) ==
  LET kept == SelectSeq(members, LAMBDA part :
                part.record.token # Undefined /\ part.record.expiresAt # Undefined)
  IN [i \in DOMAIN kept |-> Entry(kept[i].alias, kept[i].record)]

\* readAliasStore(): a missing file is an empty store; threw is TRUE when the
\* text does not parse.
ReadAliasStore(file) ==
  IF ~file.exists THEN [threw |-> FALSE, records |-> << >>]
  ELSE LET parsed == ParseRecords(file.text) IN
       IF ~parsed.ok THEN [threw |-> TRUE, records |-> << >>]
       ELSE [threw |-> FALSE, records |-> NormalizeRecords(parsed.members)]

\* writeAliasStore(records) run to its end with no other process at the file:
\* the temp file is written and renamed over the store file.
WriteAliasStore(records) == FileOf(SerializeRecords(records))

\* The first loop of registerManageLinkAlias, from entry i of the records read.
RegisterScanInit(records) ==
  [records |-> records, storeChanged |-> FALSE, existingAlias |-> NoAlias]

\* (RegisterScanNoMatch never takes a stored record for the token's.)
RECURSIVE RegisterScanNoMatch(_, _, _, _, _)
RegisterScanNoMatch(entries, i, token, nowMs, acc) ==
  IF i > Len(entries) THEN acc
  ELSE IF IsExpired(entries[i].record.expiresAt, nowMs)
  THEN RegisterScanNoMatch(entries, i + 1, token, nowMs,
         [acc EXCEPT !.records = DeleteAlias(@, entries[i].alias),
                     !.storeChanged = TRUE])
  ELSE RegisterScanNoMatch(entries, i + 1, token, nowMs, acc)

RECURSIVE RegisterScan(_, _, _, _, _)
RegisterScan(entries, i, token, nowMs, acc) ==
  IF i > Len(entries) THEN acc
  ELSE IF IsExpired(entries[i].record.expiresAt, nowMs)
  THEN RegisterScan(entries, i + 1, token, nowMs,
         [acc EXCEPT !.records = DeleteAlias(@, entries[i].alias),
                     !.storeChanged = TRUE])
  ELSE IF entries[i].record.token = token
  THEN [acc EXCEPT !.existingAlias = entries[i].alias]
  ELSE RegisterScan(entries, i + 1, token, nowMs, acc)

\* The generation loop, from an attempt on; draws are the values of randomBytes.
RECURSIVE GenerationLoop(_, _, _, _, _, _, _)
GenerationLoop(attempt, draws, token, expiresAt, nowMs, records, storeChanged) ==
  IF ~(attempt < MAX_GENERATION_ATTEMPTS)
  THEN [records |-> records, storeChanged |-> storeChanged, generatedAlias |-> NoAlias]
  ELSE
    LET aliasCandidate == GenerateAlias(draws[attempt + 1]) IN
    IF HasAlias(records, aliasCandidate)
    THEN IF IsExpired(RecordOf(records, aliasCandidate).expiresAt, nowMs)
         THEN GenerationLoop(attempt + 1, draws, token, expiresAt, nowMs,
                             DeleteAlias(records, aliasCandidate), TRUE)
         ELSE GenerationLoop(attempt + 1, draws, token, expiresAt, nowMs,
                             records, storeChanged)
    ELSE [records |-> Append(records,
                        Entry(aliasCandidate, AliasRecord(token, expiresAt, nowMs))),
          storeChanged |-> TRUE, generatedAlias |-> aliasCandidate]

\* What a call of the alias store returns and leaves in the store file.
AliasResult(threw, alias, record, count, file) ==
  [threw |-> threw, alias |-> alias, record |-> record, count |-> count, file |-> file]

\* registerManageLinkAlias(token, expiresAt)
RegisterManageLinkAlias(token, expiresAt, nowMs, file, draws) ==
  IF token = << >> THEN AliasResult(FALSE, NoAlias, NoRecord, 0, file)
  ELSE
    LET read == ReadAliasStore(file) IN
    IF read.threw THEN AliasResult(TRUE, NoAlias, NoRecord, 0, file)
    ELSE
      LET scan == RegisterScan(read.records, 1, token, nowMs,
                               RegisterScanInit(read.records))
      IN IF scan.existingAlias # NoAlias
         THEN AliasResult(FALSE, scan.existingAlias, NoRecord, 0,
                IF scan.storeChanged THEN WriteAliasStore(scan.records) ELSE file)
         ELSE LET made == GenerationLoop(0, draws, token, expiresAt, nowMs,
                                         scan.records, scan.storeChanged)
              IN AliasResult(FALSE, made.generatedAlias, NoRecord, 0,
                   IF made.storeChanged THEN WriteAliasStore(made.records) ELSE file)

\* resolveManageLinkAlias(alias)
\* (ResolveKeepsExpired returns an expired record like any other.)
ResolveKeepsExpired(alias, nowMs, file) ==
  IF alias = << >> THEN AliasResult(FALSE, alias, NoRecord, 0, file)
  ELSE
    LET read == ReadAliasStore(file) IN
    IF read.threw THEN AliasResult(TRUE, alias, NoRecord, 0, file)
    ELSE AliasResult(FALSE, alias, RecordOf(read.records, alias), 0, file)
ResolveManageLinkAlias(alias, nowMs, file) ==
  IF alias = << >> THEN AliasResult(FALSE, alias, NoRecord, 0, file)
  ELSE
    LET read == ReadAliasStore(file) IN
    IF read.threw THEN AliasResult(TRUE, alias, NoRecord, 0, file)
    ELSE IF ~HasAlias(read.records, alias)
    THEN AliasResult(FALSE, alias, NoRecord, 0, file)
    ELSE IF IsExpired(RecordOf(read.records, alias).expiresAt, nowMs)
    THEN AliasResult(FALSE, alias, NoRecord, 0,
                     WriteAliasStore(DeleteAlias(read.records, alias)))
    ELSE AliasResult(FALSE, alias, RecordOf(read.records, alias), 0, file)

\* purgeExpiredManageAliases(now)
PurgeExpiredManageAliases(nowMs, file) ==
  LET read == ReadAliasStore(file) IN
  IF read.threw THEN AliasResult(TRUE, NoAlias, NoRecord, 0, file)
  ELSE
    LET live == SelectSeq(read.records,
                  LAMBDA entry : ~IsExpired(entry.record.expiresAt, nowMs))
        purged == Len(read.records) - Len(live)
    IN AliasResult(FALSE, NoAlias, NoRecord, purged,
                   IF purged > 0 THEN WriteAliasStore(live) ELSE file)

\* Tokens and expiry texts handed to the alias store: two tokens with an
\* expiresAt of now, one or two clock steps ahead, or a text that is no date;
\* and the empty token.
AliasTokens == { << 1 >>, << 2 >> }
AliasExpiryInputs(nowMs) ==
  { IsoText(ToISOString(nowMs)), IsoText(ToISOString(nowMs + TickMinutes)),
    IsoText(ToISOString(nowMs + 2 * TickMinutes)), Text_notADate }
RegisterInputs(nowMs) ==
  (AliasTokens \X AliasExpiryInputs(nowMs))
  \cup { << << >>, IsoText(ToISOString(nowMs + TickMinutes)) >> }
AliasInputs == AliasPool \cup { << >> }

\* ------------------------------------------------------- state and steps
AvailIdle ==
  [status |-> "idle", meetingTypeId |-> "", nowUtc |-> 0,
   freeBusy |-> << >>, slotsByDate |-> << >>]

LinkNone == [status |-> "none", token |-> << >>, payload |-> EmptyPayload, signedAt |-> 0]
CheckNone == [done |-> FALSE, at |-> 0, verified |-> Null, decoded |-> Null]

ResponseNone ==
  [handler |-> "none", status |-> "", http |-> 0, meetingTypeId |-> "",
   slot |-> [start |-> ToISOString(0), end |-> ToISOString(0)]]

\* Server processes that share the store file.
Procs == {1, 2, 3}
\* Files of the directory: 0 is no file.
Inodes == 1..3
NoInode == 0

\* The directory entries of storePath and tempPath, and the text of each file.
FsEmpty == [store |-> NoInode, temp |-> NoInode, data |-> [i \in Inodes |-> << >>]]

ProcIdle ==
  [pc |-> "idle", call |-> "none", read |-> FileMissing, text |-> << >>,
   fd |-> NoInode, threw |-> FALSE, alias |-> NoAlias]

AliasOpNone ==
  [op |-> "none", token |-> << >>, expiresAt |-> << >>, alias |-> NoAlias, at |-> 0,
   before |-> FileMissing, seen |-> {}, threw |-> FALSE, record |-> NoRecord,
   count |-> 0, page |-> [thrown |-> "", path |-> << >>]]
LastIssuedNone == [alias |-> NoAlias, token |-> << >>, expiresAt |-> << >>]

AliasesIdle ==
  /\ aliasStore = FileMissing
  /\ aliasOp = AliasOpNone
  /\ lastIssued = LastIssuedNone
  /\ expiredSeen = {}
  /\ fs = FsEmpty
  /\ procs = [p \in Procs |-> ProcIdle]

EventActive == [state |-> "active", by |-> << >>]

RequestNone ==
  [n |-> 0, handler |-> "none", token |-> << >>, old |-> FALSE, at |-> 0,
   fails |-> NoFailure, eventBefore |-> EventActive, linksBefore |-> LinksNone,
   registered |-> << >>]

\* Two POST /api/book requests in flight, each before its availability
\* lookup, and a calendar without events.
Bookers == {1, 2}
BookerIdle ==
  [pc |-> "received", slot |-> ResponseNone.slot, sawBusy |-> FALSE, status |-> ""]
BookersIdle == [at |-> [p \in Bookers |-> BookerIdle], events |-> << >>]

GuestIdle ==
  /\ event = EventActive /\ replaced = {} /\ request = RequestNone
  /\ bookers = BookersIdle

RoutesIdle ==
  /\ calendarIds = << Text_p >>
  /\ links = LinksNone
  /\ response = ResponseNone
  /\ calls = << >>
  /\ GuestIdle
  /\ resolution = ResolutionIdle(now)

ConfigInit ==
  /\ hostTz \in HostTimezones
  /\ sysTz \in SystemTimezones
  /\ rules \in RuleTables
  /\ minNoticeMinutes \in MinNoticeOptions
  /\ now \in NowInputs

\* One configuration, for the runs that do not depend on it.
ConfigFixed ==
  /\ hostTz = CHOOSE tz \in HostTimezones : tz.name = "PST"
  /\ sysTz = "UTC"
  /\ rules = WeekdayRules
  /\ minNoticeMinutes = 0

config == << hostTz, sysTz, rules, minNoticeMinutes >>
signer == << secret, link, check >>
guest == << event, replaced, request, bookers >>
routes == << calendarIds, links, response, calls, guest, resolution >>
aliases == << aliasStore, aliasOp, lastIssued, expiredSeen, fs, procs >>

\* A call of getAvailabilityByDate that the calendar collaborator answers.
AvailabilityCall(meetingTypeId, freeBusy) ==
  /\ avail.status = "idle"
  /\ avail' = [status |-> "ok", meetingTypeId |-> meetingTypeId, nowUtc |-> now,
               freeBusy |-> freeBusy,
               slotsByDate |-> GetAvailabilityByDate(meetingTypeId, now, freeBusy)]
  /\ UNCHANGED << config, now, signer, routes, aliases >>

\* A call of getAvailabilityByDate during which getGoogleFreeBusy throws.
AvailabilityThrows(meetingTypeId) ==
  /\ avail.status = "idle"
  /\ GetMeetingTypeById(meetingTypeId) # NoMeetingType
  /\ avail' = [AvailIdle EXCEPT !.status = "threw", !.meetingTypeId = meetingTypeId,
                                !.nowUtc = now]
  /\ UNCHANGED << config, now, signer, routes, aliases >>

\* getAvailabilityWithFallback(meetingTypeId) while the collaborator answers
\* or fails.
ResolveAvailability(meetingTypeId, answer) ==
  /\ ~resolution.called
  /\ resolution' = [resolution EXCEPT
       !.called = TRUE, !.meetingTypeId = meetingTypeId, !.at = now,
       !.answer = answer,
       !.result = GetAvailabilityWithFallback(meetingTypeId, now, answer,
                                              resolution.blocked)]
  /\ UNCHANGED << config, now, avail, signer, calendarIds, links, response, calls,
                  guest, aliases >>

\* signLinkPayload(payload) for a guest's link.
SignLink(payload) ==
  /\ link.status = "none"
  /\ link' = IF secret = SecretUnset
             THEN [LinkNone EXCEPT !.status = "threw"]
             ELSE [status |-> "signed", token |-> SignLinkPayload(payload, secret),
                   payload |-> payload, signedAt |-> now]
  /\ UNCHANGED << config, now, avail, secret, check, routes, aliases >>

\* The holder replaces character i of the payload segment by c.
TamperLink(i, c) ==
  /\ link.status = "signed"
  /\ ~check.done
  /\ i \in 1..Len(Split(link.token)[1])
  /\ c # link.token[i]
  /\ link' = [link EXCEPT !.status = "tampered", !.token[i] = c]
  /\ UNCHANGED << config, now, avail, secret, check, routes, aliases >>

\* A request presents the link: decodeSignedLinkPayload, then verifySignedLink.
CheckLink ==
  /\ link.status \in {"signed", "tampered"}
  /\ ~check.done
  /\ check' = [done |-> TRUE, at |-> now,
               verified |-> VerifySignedLink(link.token, secret, now),
               decoded |-> DecodeSignedLinkPayload(link.token)]
  /\ UNCHANGED << config, now, avail, secret, link, routes, aliases >>

\* createManagementLinks(payload) while the clock runs.
CreateLinks(payload, reads) ==
  /\ links = LinksNone
  /\ links' = IF secret = SecretUnset THEN LinksNone
             ELSE CreateManagementLinks(payload, reads, secret)
  /\ now' = IF secret = SecretUnset THEN now ELSE reads[3]
  /\ UNCHANGED << config, avail, signer, calendarIds, response, calls, aliases, guest, resolution >>

\* Time passes.
Tick ==
  /\ ~check.done
  /\ now < SignEpoch + MaxTicks * TickMinutes
  /\ now' = now + TickMinutes
  /\ UNCHANGED << config, avail, signer, routes, aliases >>

\* ------------------------------------------------------ alias store calls
AliasCall(op, token, expiresAt, result) ==
  [op |-> op, token |-> token, expiresAt |-> expiresAt, alias |-> result.alias,
   at |-> now, before |-> aliasStore, seen |-> expiredSeen, threw |-> result.threw,
   record |-> result.record, count |-> result.count, page |-> AliasOpNone.page]

\* registerManageLinkAlias(token, expiresAt)
RegisterAlias(token, expiresAt, draws) ==
  \E result \in { RegisterManageLinkAlias(token, expiresAt, now, aliasStore, draws) } :
    /\ aliasStore' = result.file
    /\ aliasOp' = AliasCall("register", token, expiresAt, result)
    /\ lastIssued' = IF result.alias # NoAlias
                     THEN [alias |-> result.alias, token |-> token,
                           expiresAt |-> expiresAt]
                     ELSE lastIssued
    /\ expiredSeen' = expiredSeen \ { result.alias }
    /\ UNCHANGED << config, now, avail, signer, routes, fs, procs >>

\* resolveManageLinkAlias(alias)
ResolveAlias(alias) ==
  \E result \in { ResolveManageLinkAlias(alias, now, aliasStore) } :
    /\ aliasStore' = result.file
    /\ aliasOp' = AliasCall("resolve", << >>, << >>, result)
    /\ expiredSeen' =
         IF /\ result.file # aliasStore
            /\ DateParse(RecordOf(ReadAliasStore(aliasStore).records, alias).expiresAt).value
                 < now
         THEN expiredSeen \cup { alias }
         ELSE expiredSeen
    /\ UNCHANGED << config, now, avail, signer, routes, lastIssued, fs, procs >>

\* next/navigation: redirect(path) and notFound() do not return; each throws
\* the error that the framework turns into the redirect or the 404 page.
Redirect(path) == [thrown |-> "NEXT_REDIRECT", path |-> path]
NotFound == [thrown |-> "NEXT_NOT_FOUND", path |-> << >>]

\* try { body } catch (error) { handler }
TryCatch(body, handler) == IF body.thrown # "" THEN handler ELSE body

\* ManageAliasPage for what resolveManageLinkAlias(alias) returned or threw:
\* the error that leaves the page.
ManageAliasPage(result) ==
  TryCatch(IF result.threw THEN [thrown |-> "Error", path |-> << >>]
           ELSE IF result.record = NoRecord THEN NotFound
           ELSE Redirect(result.record.token),
           NotFound)

\* A visit of /m/<alias>.
VisitAlias(alias) ==
  \E result \in { ResolveManageLinkAlias(alias, now, aliasStore) } :
    /\ aliasStore' = result.file
    /\ aliasOp' = [AliasCall("visit", << >>, << >>, result)
                    EXCEPT !.page = ManageAliasPage(result)]
    /\ UNCHANGED << config, now, avail, signer, routes, lastIssued, expiredSeen,
                    fs, procs >>

\* purgeExpiredManageAliases()
PurgeAliases ==
  \E result \in { PurgeExpiredManageAliases(now, aliasStore) } :
    /\ aliasStore' = result.file
    /\ aliasOp' = AliasCall("purge", << >>, << >>, result)
    /\ expiredSeen' = {}
    /\ UNCHANGED << config, now, avail, signer, routes, lastIssued, fs, procs >>

\* ------------------------------------------- the store file, step by step
\* readFileSync(storePath, "utf8"): the file as it is at this instant.
ReadFileSync(dir) ==
  IF dir.store = NoInode THEN FileMissing ELSE FileOf(dir.data[dir.store])

\* Files that a directory entry or an open descriptor refers to; the others
\* are gone.
Referenced(dir, descriptors) == ({dir.store, dir.temp} \cup descriptors) \ {NoInode}
Collect(dir, descriptors) ==
  [dir EXCEPT !.data = [i \in Inodes |->
     IF i \in Referenced(dir, descriptors) THEN dir.data[i] ELSE << >>]]

\* open(tempPath, "w"): the existing file is truncated, or a new one created.
OpenTruncate(dir, descriptors) ==
  LET id == IF dir.temp # NoInode THEN dir.temp
            ELSE CHOOSE i \in Inodes :
                   /\ i \notin Referenced(dir, descriptors)
                   /\ \A j \in Inodes : j \notin Referenced(dir, descriptors) => i <= j
  IN [dir |-> [dir EXCEPT !.temp = id, !.data[id] = << >>], fd |-> id]

\* write(fd, serialized) at offset 0: what the file held beyond the written
\* length stays.
WriteAt0(old, text) == text \o SubSeq(old, Len(text) + 1, Len(old))

\* renameSync(tempPath, storePath)
RenameSync(dir) == [dir EXCEPT !.store = dir.temp, !.temp = NoInode]

Descriptors == { procs[p].fd : p \in Procs }

\* A process enters a call: readAliasStore reads the store file and the call
\* computes what it returns and the records it will write, if any.
StartCall(p, call, result, read) ==
  /\ procs[p].pc = "idle"
  /\ procs' = [procs EXCEPT ![p] =
       [pc |-> IF ~result.threw /\ result.file # read THEN "open" ELSE "done",
        call |-> call, read |-> read, text |-> result.file.text,
        fd |-> NoInode, threw |-> result.threw, alias |-> result.alias]]
  /\ UNCHANGED << config, now, avail, signer, routes, fs,
                  aliasStore, aliasOp, lastIssued, expiredSeen >>

StartRegister(p, token, expiresAt, draws) ==
  \E read \in { ReadFileSync(fs) } :
    StartCall(p, "register",
              RegisterManageLinkAlias(token, expiresAt, now, read, draws), read)

StartResolve(p, alias) ==
  \E read \in { ReadFileSync(fs) } :
    StartCall(p, "resolve", ResolveManageLinkAlias(alias, now, read), read)

\* writeAliasStore, first step: writeFileSync opens the temp file.
StepOpen(p) ==
  /\ procs[p].pc = "open"
  /\ \E opened \in { OpenTruncate(fs, Descriptors) } :
       /\ fs' = opened.dir
       /\ procs' = [procs EXCEPT ![p].pc = "write", ![p].fd = opened.fd]
  /\ UNCHANGED << config, now, avail, signer, routes,
                  aliasStore, aliasOp, lastIssued, expiredSeen >>

\* writeFileSync writes the serialized records and closes the file.
StepWrite(p) ==
  /\ procs[p].pc = "write"
  /\ fs' = Collect([fs EXCEPT !.data[procs[p].fd] = WriteAt0(@, procs[p].text)],
                   Descriptors \ { procs[p].fd })
  /\ procs' = [procs EXCEPT ![p].pc = "rename", ![p].fd = NoInode]
  /\ UNCHANGED << config, now, avail, signer, routes,
                  aliasStore, aliasOp, lastIssued, expiredSeen >>

\* renameSync(tempPath, storePath): throws ENOENT when the temp file is gone.
StepRename(p) ==
  /\ procs[p].pc = "rename"
  /\ IF fs.temp = NoInode
     THEN /\ procs' = [procs EXCEPT ![p].pc = "done", ![p].threw = TRUE]
          /\ fs' = fs
     ELSE /\ procs' = [procs EXCEPT ![p].pc = "done"]
          /\ fs' = Collect(RenameSync(fs), Descriptors)
  /\ UNCHANGED << config, now, avail, signer, routes,
                  aliasStore, aliasOp, lastIssued, expiredSeen >>

\* ---------------------------------------------------------- route handlers
\* A call of createCalendarEvent or updateCalendarEvent and whether it returned.
CalendarCall(op, sendUpdates, slot, ok) ==
  [op |-> op, sendUpdates |-> sendUpdates, start |-> slot.start, end |-> slot.end,
   ok |-> ok, eventId |-> Undefined, description |-> Undefined]

\* A call for the event eventId; description is the manage link token the
\* description carries, << >> for a description without a manage link, and
\* Undefined when the call passes no description.
EventCall(op, sendUpdates, slot, ok, eventId, description) ==
  [CalendarCall(op, sendUpdates, slot, ok)
     EXCEPT !.eventId = eventId, !.description = description]

\* availability[slot.start.slice(0, 10)] ?? [] holds the requested pair.
SlotListed(slotsByDate, slot) ==
  LET dateKey == IsoDateKey(slot.start)
      slotsForDate == IF dateKey \in DOMAIN slotsByDate THEN slotsByDate[dateKey]
                      ELSE << >>
  IN \E i \in DOMAIN slotsForDate :
       slotsForDate[i].start = slot.start /\ slotsForDate[i].end = slot.end

\* A second update whose error leaves the handler's try block.
SecondUpdateThrows(ok, success, failure) == IF ok THEN success ELSE failure

\* The try/catch around the second update: its error is logged and the
\* handler goes on to the response of the succeeded action.
SecondUpdateLogged(ok, success, failure) == success

Outcome(status, http, lookup, calendarCalls, managementLinks) ==
  [status |-> status, http |-> http, lookup |-> lookup, calls |-> calendarCalls,
   links |-> managementLinks, registered |-> << >>]

\* The outcome of a request that went through describeManagementLinks, which
\* hands the manage token to registerManageLinkAlias.
Described(outcome, managementLinksRaw) ==
  [outcome EXCEPT !.registered = managementLinksRaw.manage.token]

\* What a handler's call of getAvailabilityByDate left: not called, thrown,
\* or answered.
LookupThrew(meetingTypeId) ==
  [AvailIdle EXCEPT !.status = "threw", !.meetingTypeId = meetingTypeId, !.nowUtc = now]
LookupAnswer(meetingTypeId, freeBusy) ==
  [status |-> "ok", meetingTypeId |-> meetingTypeId, nowUtc |-> now,
   freeBusy |-> freeBusy,
   slotsByDate |-> GetAvailabilityByDate(meetingTypeId, now, freeBusy)]

\* POST /api/book: the response, the availability lookup, the calendar calls
\* and the management links of a request.
BookOutcomeAs(meetingTypeId, slot, valid, freeBusy, fails, form) ==
  LET meetingType == GetMeetingTypeById(meetingTypeId)
      looked == LookupAnswer(meetingTypeId, freeBusy)
      managementLinks ==
        CreateManagementLinks(
          [EmptyPayload EXCEPT !.meetingTypeId = MeetingTypeIdText(meetingType.id),
                               !.eventId = Text_e, !.guestEmail = Text_g,
                               !.guestName = Text_name, !.calendarId = calendarIds[1],
                               !.slotStart = EventDateTime(slot.start, form),
                               !.slotEnd = EventDateTime(slot.end, form)],
          ClockStill(now), secret)
      created == EventCall("createEvent", "none", slot, fails.at # "createEvent",
                           Undefined, << >>)
      updated == EventCall("updateEvent", "all", slot, fails.at # "updateEvent",
                           Text_e, managementLinks.manage.token)
  IN    IF ~valid
        THEN Outcome("invalid", 400, AvailIdle, << >>, LinksNone)
        ELSE IF meetingType = NoMeetingType
        THEN Outcome("unknown_meeting_type", 404, AvailIdle, << >>, LinksNone)
        ELSE IF calendarIds = << >> \/ fails.at = "freeBusy"
        THEN Outcome("error", 502, LookupThrew(meetingTypeId), << >>, LinksNone)
        ELSE IF ~SlotListed(looked.slotsByDate, slot)
        THEN Outcome("conflict", 409, looked, << >>, LinksNone)
        ELSE IF fails.at = "createEvent"
        THEN Outcome("error", 502, looked, << created >>, LinksNone)
        ELSE IF secret = SecretUnset \/ fails.at = "alias"
        THEN Outcome("error", 502, looked, << created >>, LinksNone)
        ELSE SecondUpdateLogged(
               updated.ok,
               Outcome("confirmed", 201, looked, << created, updated >>, managementLinks),
               Outcome("error", 502, looked, << created, updated >>, LinksNone))

\* POST /api/book when the provider answers with the text it was sent.
BookOutcome(meetingTypeId, slot, valid, freeBusy, fails) ==
  BookOutcomeAs(meetingTypeId, slot, valid, freeBusy, fails, "utc")

\* A request for one of the slots a client may ask for.
BookPost(meetingTypeId, slots, valid, freeBusy, fails) ==
  /\ response.handler = "none"
  /\ \E slot \in slots :
     \E outcome \in { BookOutcome(meetingTypeId, slot, valid, freeBusy, fails) } :
     /\ response' = [handler |-> "book", status |-> outcome.status,
                     http |-> outcome.http, meetingTypeId |-> meetingTypeId,
                     slot |-> slot]
     /\ avail' = outcome.lookup
     /\ calls' = outcome.calls
     /\ links' = outcome.links
     /\ UNCHANGED << config, now, signer, calendarIds, aliases, guest, resolution >>

\* ---------------------------------------------- concurrent Book requests
\* The events of the calendar that its free-busy answer shows.
ShownEvents(events) == SelectSeq(events, LAMBDA e : e.visible)

\* A free-busy answer that shows no event.
FreeBusyShowsNothing(events) == << >>

\* getGoogleFreeBusy: the busy ranges of the events the calendar shows.
FreeBusyOf(events) ==
  [i \in DOMAIN ShownEvents(events) |->
     Interval(DateParseIso(ShownEvents(events)[i].slot.start),
              DateParseIso(ShownEvents(events)[i].slot.end))]

Overlaps(a, b) ==
  /\ DateParseIso(a.start) < DateParseIso(b.end)
  /\ DateParseIso(b.start) < DateParseIso(a.end)

\* POST /api/book up to its slot check: request p asks for slot of the
\* meeting type, the handler looks availability up and answers conflict
\* unless the slot is listed.
BookPreCheck(p, meetingTypeId, slot) ==
  /\ bookers.at[p].pc = "received"
  /\ \E looked \in { LookupAnswer(meetingTypeId, FreeBusyOf(bookers.events)) } :
     \E listed \in { SlotListed(looked.slotsByDate, slot) } :
       /\ avail' = looked
       /\ bookers' =
            [bookers EXCEPT !.at[p] =
               [pc |-> IF listed THEN "checked" ELSE "answered",
                slot |-> slot,
                sawBusy |-> \E i \in DOMAIN bookers.events :
                              /\ bookers.events[i].visible
                              /\ Overlaps(bookers.events[i].slot, slot),
                status |-> IF listed THEN "" ELSE "conflict"]]
  /\ UNCHANGED << config, now, signer, calendarIds, links, response, calls, event,
                  replaced, request, resolution, aliases >>

\* The rest of POST /api/book: createCalendarEvent, which the provider
\* accepts or refuses, and the response.
BookCreate(p, ok) ==
  /\ bookers.at[p].pc = "checked"
  /\ bookers' =
       [bookers EXCEPT
          !.at[p].pc = "answered",
          !.at[p].status = IF ok THEN "confirmed" ELSE "error",
          !.events = IF ok
                     THEN Append(@, [slot |-> bookers.at[p].slot, by |-> p,
                                     visible |-> FALSE])
                     ELSE @]
  /\ UNCHANGED << config, now, avail, signer, calendarIds, links, response, calls,
                  event, replaced, request, resolution, aliases >>

\* The calendar starts to show a created event in its free-busy answers.
ShowEvent(i) ==
  /\ i \in DOMAIN bookers.events
  /\ ~bookers.events[i].visible
  /\ bookers' = [bookers EXCEPT !.events[i].visible = TRUE]
  /\ UNCHANGED << config, now, avail, signer, calendarIds, links, response, calls,
                  event, replaced, request, resolution, aliases >>

\* isLinkExpired where the instant expiresAt itself counts as past.
IsLinkExpiredAtOrBefore(expiresAt, nowMs) ==
  LET expiresAtMs == IF expiresAt = Undefined THEN NaN ELSE DateParse(expiresAt) IN
  expiresAtMs.finite /\ expiresAtMs.value <= nowMs

\* isLinkExpired(expiresAt)
IsLinkExpired(expiresAt, nowMs) ==
  LET expiresAtMs == IF expiresAt = Undefined THEN NaN ELSE DateParse(expiresAt) IN
  expiresAtMs.finite /\ expiresAtMs.value < nowMs

\* The response for a GoogleApiError of a status (PATCH /api/reschedule).
GoogleFailure(status, lookup, calendarCalls) ==
  IF status = 404 \/ status = 410
  THEN Outcome("not_found", 410, lookup, calendarCalls, LinksNone)
  ELSE IF status = 409
  THEN Outcome("unavailable", 409, lookup, calendarCalls, LinksNone)
  ELSE Outcome("google_error", 502, lookup, calendarCalls, LinksNone)

\* The two updates of PATCH where the first one notifies the attendees too.
PatchUpdatesNotifyTwice(eventId, slot, manageToken, fails) ==
  << EventCall("updateEvent", "all", slot, fails.at # "updateEvent", eventId, Undefined),
     EventCall("updateEvent", "all", slot, fails.at # "secondUpdate", eventId,
               manageToken) >>

\* The two updateCalendarEvent calls of PATCH: the move of the event, then
\* the description with the manage link of the new links.
PatchUpdates(eventId, slot, manageToken, fails) ==
  << EventCall("updateEvent", "none", slot, fails.at # "updateEvent", eventId, Undefined),
     EventCall("updateEvent", "all", slot, fails.at # "secondUpdate", eventId,
               manageToken) >>

\* The unchanged check of PATCH where no slot counts as the current one.
NeverCurrentSlot(slotStart, slot) == FALSE

\* decoded.slotStart && decoded.slotStart === slot.start
IsCurrentSlot(slotStart, slot) ==
  ~Falsy(slotStart) /\ slotStart = IsoText(slot.start)

\* The argument of createManagementLinks where the links keep the slot of the
\* token.
PatchLinkPayloadOfOldSlot(meetingType, decoded, verified, calendarId, slot) ==
  [EmptyPayload EXCEPT !.meetingTypeId = MeetingTypeIdText(meetingType.id),
                       !.eventId = verified.payload.eventId,
                       !.guestEmail = decoded.payload.guestEmail,
                       !.guestName = decoded.payload.guestName,
                       !.calendarId = calendarId,
                       !.slotStart = decoded.payload.slotStart,
                       !.slotEnd = decoded.payload.slotEnd]

\* The argument of createManagementLinks in PATCH.
PatchLinkPayload(meetingType, decoded, verified, calendarId, slot) ==
  [EmptyPayload EXCEPT !.meetingTypeId = MeetingTypeIdText(meetingType.id),
                       !.eventId = verified.payload.eventId,
                       !.guestEmail = decoded.payload.guestEmail,
                       !.guestName = decoded.payload.guestName,
                       !.calendarId = calendarId,
                       !.slotStart = IsoText(slot.start),
                       !.slotEnd = IsoText(slot.end)]

\* PATCH /api/reschedule: the response, the availability lookup, the calendar
\* calls and the management links of a request; decoded and verified are what
\* decodeSignedLinkPayload(token) and verifySignedLink(token) return.
PatchOutcome(token, decoded, verified, slot, freeBusy, fails) ==
  LET meetingType == GetMeetingTypeByText(verified.payload.meetingTypeId)
      calendarId == IF Falsy(decoded.payload.calendarId) THEN calendarIds[1]
                    ELSE decoded.payload.calendarId
      looked == LookupAnswer(meetingType.id, freeBusy)
      managementLinks ==
        CreateManagementLinks(
          PatchLinkPayload(meetingType, decoded, verified, calendarId, slot),
          ClockStill(now), secret)
      updates == PatchUpdates(verified.payload.eventId, slot,
                              managementLinks.manage.token, fails)
      first == updates[1]
      second == updates[2]
  IN    IF token = << >>
        THEN Outcome("invalid_token", 400, AvailIdle, << >>, LinksNone)
        ELSE IF decoded.kind # "payload" \/ decoded.payload.action # Actions.reschedule
        THEN Outcome("invalid_token", 400, AvailIdle, << >>, LinksNone)
        ELSE IF verified = Threw
        THEN Outcome("threw", 500, AvailIdle, << >>, LinksNone)
        ELSE IF verified.kind # "payload"
        THEN (IF IsLinkExpired(decoded.payload.expiresAt, now)
              THEN Outcome("expired", 410, AvailIdle, << >>, LinksNone)
              ELSE Outcome("invalid_token", 400, AvailIdle, << >>, LinksNone))
        ELSE IF meetingType = NoMeetingType
        THEN Outcome("unknown_meeting_type", 404, AvailIdle, << >>, LinksNone)
        ELSE IF IsCurrentSlot(decoded.payload.slotStart, slot)
        THEN Outcome("unchanged", 400, AvailIdle, << >>, LinksNone)
        ELSE IF Falsy(decoded.payload.calendarId) /\ calendarIds = << >>
        THEN Outcome("google_error", 500, AvailIdle, << >>, LinksNone)
        ELSE IF calendarIds = << >>
        THEN Outcome("error", 500, LookupThrew(meetingType.id), << >>, LinksNone)
        ELSE IF fails.at = "freeBusy"
        THEN GoogleFailure(fails.status, LookupThrew(meetingType.id), << >>)
        ELSE IF ~SlotListed(looked.slotsByDate, slot)
        THEN Outcome("unavailable", 409, looked, << >>, LinksNone)
        ELSE IF fails.at = "alias"
        THEN Described(Outcome("error", 500, looked, << >>, LinksNone), managementLinks)
        ELSE IF fails.at = "updateEvent"
        THEN Described(GoogleFailure(fails.status, looked, << first >>), managementLinks)
        ELSE SecondUpdateLogged(
               second.ok,
               Described(Outcome("rescheduled", 200, looked, << first, second >>,
                                 managementLinks), managementLinks),
               Described(GoogleFailure(fails.status, looked, << first, second >>),
                         managementLinks))

\* A request of the guest of the confirmed booking, for one of the slots.
ReschedulePatch(token, slots, freeBusy, fails) ==
  /\ response.handler = "book" /\ response.status = "confirmed"
  /\ \E slot \in slots :
     \E decoded \in { DecodeSignedLinkPayload(token) } :
     \E verified \in { VerifySignedLink(token, secret, now) } :
     \E outcome \in { PatchOutcome(token, decoded, verified, slot, freeBusy, fails) } :
     /\ response' = [handler |-> "reschedule", status |-> outcome.status,
                     http |-> outcome.http,
                     meetingTypeId |-> response.meetingTypeId,
                     slot |-> slot]
     /\ avail' = outcome.lookup
     /\ calls' = outcome.calls
     /\ links' = IF outcome.status = "rescheduled" THEN outcome.links ELSE links
     /\ UNCHANGED << config, now, signer, calendarIds, aliases, guest, resolution >>

\* ------------------------------------------------ the guest's later requests
\* Requests the guest makes with the links of the booking.
MaxRequests == 3

\* The instant of the booking: Wednesday 08:00 PST.
GuestEpoch == 5 * MinutesPerDay + 960

TokensOf(linkSets) ==
  UNION { { l.cancel.token, l.reschedule.token, l.manage.token } : l \in linkSets }

\* The tokens of replaced link sets, and all tokens the guest holds.
OldTokens == TokensOf(replaced)
HeldTokens == TokensOf({ links } \cup replaced)

Request(handler, token, fails) ==
  [n |-> request.n + 1, handler |-> handler, token |-> token,
   old |-> token \in OldTokens, at |-> now, fails |-> fails,
   eventBefore |-> event, linksBefore |-> links, registered |-> << >>]

\* PATCH /api/reschedule with a token the guest holds, for one of the slots.
GuestPatch(token, slots, freeBusy, fails) ==
  /\ request.n < MaxRequests
  /\ \E slot \in slots :
     \E decoded \in { DecodeSignedLinkPayload(token) } :
     \E verified \in { VerifySignedLink(token, secret, now) } :
     \E outcome \in { PatchOutcome(token, decoded, verified, slot, freeBusy, fails) } :
     /\ response' = [handler |-> "reschedule", status |-> outcome.status,
                     http |-> outcome.http,
                     meetingTypeId |-> response.meetingTypeId,
                     slot |-> slot]
     /\ request' = [Request("reschedule", token, fails)
                     EXCEPT !.registered = outcome.registered]
     /\ avail' = outcome.lookup
     /\ calls' = outcome.calls
     /\ links' = IF outcome.status = "rescheduled" THEN outcome.links ELSE links
     /\ replaced' = IF outcome.status = "rescheduled"
                    THEN replaced \cup { links } ELSE replaced
     /\ UNCHANGED << config, now, signer, calendarIds, aliases, event, bookers,
                     resolution >>


\* The provider's HTTP status for DELETE of the booking's event: a failure
\* of the provider, or 204 for an event that exists and 410 for a deleted one.
DeleteAnswer(fails) ==
  IF fails.at = "deleteEvent" THEN fails.status
  ELSE IF event.state = "active" THEN 204 ELSE 410

\* deleteCalendarEvent where 410 is not taken as a missing event.
DeleteGoneThrows(status) ==
  IF status = 404 THEN "not_found"
  ELSE IF status = 204 \/ status = 200 THEN "deleted"
  ELSE IF status \notin 200..299 THEN "GoogleApiError"
  ELSE "deleted"

\* deleteCalendarEvent(...) for the provider's status: the result's status,
\* or the error thrown.
DeleteCalendarEvent(status) ==
  IF status = 404 \/ status = 410 THEN "not_found"
  ELSE IF status = 204 \/ status = 200 THEN "deleted"
  ELSE IF status \notin 200..299 THEN "GoogleApiError"
  ELSE "deleted"

CancelFailures ==
  { NoFailure, Failure("accessToken", 401), Failure("deleteEvent", 500) }

Rejected(status, http) == Outcome(status, http, AvailIdle, << >>, LinksNone)

\* The answer to a token that verifySignedLink returned null for.
Unverified(decoded) ==
  IF IsLinkExpired(decoded.payload.expiresAt, now) THEN Rejected("expired", 410)
  ELSE Rejected("invalid_token", 400)

\* POST /api/cancel: the response and the calendar calls of a request.
CancelOutcome(token, decoded, verified, fails) ==
  LET deleteResult == DeleteCalendarEvent(DeleteAnswer(fails))
      deleted == CalendarCall("deleteEvent", "all", ResponseNone.slot,
                              deleteResult = "deleted")
  IN    IF token = << >>
        THEN Rejected("invalid_token", 400)
        ELSE IF decoded.kind # "payload"
        THEN Rejected("invalid_token", 400)
        ELSE IF verified = Threw
        THEN Rejected("threw", 500)
        ELSE IF verified.kind # "payload"
        THEN Unverified(decoded)
        ELSE IF decoded.payload.calendarId = Undefined /\ calendarIds = << >>
        THEN Rejected("threw", 500)
        ELSE IF fails.at = "accessToken"
        THEN Rejected("error", 500)
        ELSE IF deleteResult = "GoogleApiError"
        THEN Outcome("google_error", 502, AvailIdle, << deleted >>, LinksNone)
        ELSE IF deleteResult = "not_found"
        THEN Outcome("not_found", 410, AvailIdle, << deleted >>, LinksNone)
        ELSE Outcome("cancelled", 200, AvailIdle, << deleted >>, LinksNone)

CancelPost(token, fails) ==
  /\ request.n < MaxRequests
  /\ \E decoded \in { DecodeSignedLinkPayload(token) } :
     \E verified \in { VerifySignedLink(token, secret, now) } :
     \E outcome \in { CancelOutcome(token, decoded, verified, fails) } :
     /\ response' = [response EXCEPT !.handler = "cancel", !.status = outcome.status,
                                     !.http = outcome.http]
     /\ request' = Request("cancel", token, fails)
     /\ avail' = outcome.lookup
     /\ calls' = outcome.calls
     /\ event' = IF outcome.status = "cancelled"
                 THEN [state |-> "deleted", by |-> token] ELSE event
     /\ UNCHANGED << config, now, signer, calendarIds, links, replaced, bookers,
                     resolution, aliases >>

\* GET /api/manage: the response and the management links of a request.
ManageOutcome(token, decoded, verified, fails) ==
  LET meetingType == GetMeetingTypeByText(verified.payload.meetingTypeId)
      calendarId == IF Falsy(decoded.payload.calendarId) THEN calendarIds[1]
                    ELSE decoded.payload.calendarId
      managementLinks ==
        CreateManagementLinks(
          [EmptyPayload EXCEPT !.meetingTypeId = MeetingTypeIdText(meetingType.id),
                               !.eventId = verified.payload.eventId,
                               !.guestEmail = decoded.payload.guestEmail,
                               !.guestName = decoded.payload.guestName,
                               !.calendarId = calendarId,
                               !.slotStart = decoded.payload.slotStart,
                               !.slotEnd = decoded.payload.slotEnd],
          ClockStill(now), secret)
  IN    IF token = << >>
        THEN Rejected("invalid_token", 400)
        ELSE IF decoded.kind # "payload" \/ decoded.payload.action # Actions.manage
        THEN Rejected("invalid_token", 400)
        ELSE IF verified = Threw
        THEN Rejected("threw", 500)
        ELSE IF verified.kind # "payload"
        THEN Unverified(decoded)
        ELSE IF meetingType = NoMeetingType
        THEN Rejected("unknown_meeting_type", 404)
        ELSE IF Falsy(decoded.payload.calendarId) /\ calendarIds = << >>
        THEN Rejected("error", 500)
        ELSE IF fails.at = "alias"
        THEN Rejected("threw", 500)
        ELSE Outcome("ok", 200, AvailIdle, << >>, managementLinks)

ManageGet(token, fails) ==
  /\ request.n < MaxRequests
  /\ \E decoded \in { DecodeSignedLinkPayload(token) } :
     \E verified \in { VerifySignedLink(token, secret, now) } :
     \E outcome \in { ManageOutcome(token, decoded, verified, fails) } :
     /\ response' = [response EXCEPT !.handler = "manage", !.status = outcome.status,
                                     !.http = outcome.http]
     /\ request' = Request("manage", token, fails)
     /\ avail' = outcome.lookup
     /\ calls' = outcome.calls
     /\ links' = IF outcome.status = "ok" THEN outcome.links ELSE links
     /\ UNCHANGED << config, now, signer, calendarIds, event, replaced, bookers,
                     resolution, aliases >>

\* existingSlotStart.slice(0, 10) as a key of slotsByDate
SliceDateKey(text) ==
  IF Len(text) >= 2 /\ IsDigits(SubSeq(text, 1, 2)) THEN Number(SubSeq(text, 1, 2))
  ELSE -1

RemoveExistingSlot(slotsByDate, existingSlotStart) ==
  IF Falsy(existingSlotStart) THEN slotsByDate
  ELSE
    LET dateKey == SliceDateKey(existingSlotStart)
        slotsForDate == IF dateKey \in DOMAIN slotsByDate THEN slotsByDate[dateKey]
                        ELSE << >>
    IN IF ~(\E i \in DOMAIN slotsForDate :
              IsoText(slotsForDate[i].start) = existingSlotStart)
       THEN slotsByDate
       ELSE [d \in DOMAIN slotsByDate |->
               IF d = dateKey
               THEN SelectSeq(slotsForDate,
                              LAMBDA slot : IsoText(slot.start) # existingSlotStart)
               ELSE slotsByDate[d]]

\* GET /api/reschedule: the response and the availability served with it.
GetOutcome(status, http, resolved, served) ==
  [status |-> status, http |-> http, resolved |-> resolved, served |-> served]

RescheduleGetOutcome(token, decoded, verified, answer) ==
  LET meetingType == GetMeetingTypeByText(verified.payload.meetingTypeId)
      given == IF calendarIds = << >>
               THEN Thrown("GoogleCalendarConfigError", << "Missing calendar configuration" >>)
               ELSE answer
      availability ==
        GetAvailabilityWithFallback(meetingType.id, now, given, resolution.blocked)
      unresolved == [resolution EXCEPT !.called = FALSE]
      resolved == [resolution EXCEPT !.called = TRUE, !.meetingTypeId = meetingType.id,
                                     !.at = now, !.answer = given,
                                     !.result = availability]
  IN    IF token = << >>
        THEN GetOutcome("invalid_token", 400, unresolved, << >>)
        ELSE IF decoded.kind # "payload" \/ decoded.payload.action # Actions.reschedule
        THEN GetOutcome("invalid_token", 400, unresolved, << >>)
        ELSE IF verified = Threw
        THEN GetOutcome("threw", 500, unresolved, << >>)
        ELSE IF verified.kind # "payload"
        THEN (IF IsLinkExpired(decoded.payload.expiresAt, now)
              THEN GetOutcome("expired", 410, unresolved, << >>)
              ELSE GetOutcome("invalid_token", 400, unresolved, << >>))
        ELSE IF meetingType = NoMeetingType
        THEN GetOutcome("unknown_meeting_type", 404, unresolved, << >>)
        ELSE IF Falsy(decoded.payload.calendarId) /\ calendarIds = << >>
        THEN GetOutcome("google_error", 500, unresolved, << >>)
        ELSE GetOutcome("ok", 200, resolved,
               RemoveExistingSlot(availability.slotsByDate, decoded.payload.slotStart))

RescheduleGet(token, answer) ==
  /\ request.n < MaxRequests
  /\ \E decoded \in { DecodeSignedLinkPayload(token) } :
     \E verified \in { VerifySignedLink(token, secret, now) } :
     \E outcome \in { RescheduleGetOutcome(token, decoded, verified, answer) } :
     /\ response' = [response EXCEPT !.handler = "rescheduleGet",
                                     !.status = outcome.status, !.http = outcome.http]
     /\ request' = Request("rescheduleGet", token, NoFailure)
     /\ resolution' = [outcome.resolved EXCEPT !.served = outcome.served]
     /\ avail' = AvailIdle
     /\ calls' = << >>
     /\ UNCHANGED << config, now, signer, calendarIds, links, event, replaced,
                     bookers, aliases >>

\* Time passes: up to the expiresAt of the booking's links, then beyond it.
Elapse ==
  /\ now < GuestEpoch + DEFAULT_MANAGEMENT_LINK_TTL_MS + 1
  /\ now' = IF now < GuestEpoch + DEFAULT_MANAGEMENT_LINK_TTL_MS
            THEN GuestEpoch + DEFAULT_MANAGEMENT_LINK_TTL_MS
            ELSE now + 1
  /\ UNCHANGED << config, avail, signer, routes, aliases >>

vars ==
  << hostTz, sysTz, rules, minNoticeMinutes, now, avail, secret, link, check,
     calendarIds, links, response, calls,
     aliasStore, aliasOp, lastIssued, expiredSeen, fs, procs,
     event, replaced, request, bookers, resolution >>

InitSlots ==
  /\ ConfigInit
  /\ avail = AvailIdle
  /\ secret = 1 /\ link = LinkNone /\ check = CheckNone
  /\ RoutesIdle
  /\ AliasesIdle

NextSlots ==
  \/ \E id \in MeetingTypeIds, fb \in FreeBusyAnswers(now) : AvailabilityCall(id, fb)
  \/ \E id \in MeetingTypeIds : AvailabilityThrows(id)

SpecSlots == InitSlots /\ [][NextSlots]_vars

InitSign ==
  /\ ConfigFixed
  /\ now = SignEpoch
  /\ avail = AvailIdle
  /\ secret \in Secrets /\ link = LinkNone /\ check = CheckNone
  /\ RoutesIdle
  /\ AliasesIdle

NextSign ==
  \/ \E payload \in PayloadInputs(now) : SignLink(payload)
  \/ \E i \in DOMAIN link.token : \E c \in TamperChars(link.token[i]) : TamperLink(i, c)
  \/ CheckLink
  \/ Tick

SpecSign == InitSign /\ [][NextSign]_vars

\* Tokens a guest presents to PATCH besides the reschedule link of the
\* booking: its cancel link, and an empty token.
OtherTokens == { links.cancel.token, << >> }

InitBook ==
  /\ hostTz \in HostTimezones
  /\ sysTz = "UTC"
  /\ rules = WeekdayRules
  /\ minNoticeMinutes = 0
  /\ now \in RequestInstants
  /\ avail = AvailIdle
  /\ secret \in Secrets /\ link = LinkNone /\ check = CheckNone
  /\ calendarIds \in CalendarIdSettings
  /\ links = LinksNone
  /\ response = ResponseNone
  /\ calls = << >>
  /\ AliasesIdle
  /\ GuestIdle
  /\ resolution = ResolutionIdle(now)

NextBook ==
  \/ \E id \in MeetingTypeIds, valid \in BOOLEAN :
       \E fb \in RequestBusyAnswers(now), fails \in BookFailures :
         BookPost(id, RequestedSlots(id, now), valid, fb, fails)
  \/ \E fb \in RequestBusyAnswers(now), fails \in PatchFailures :
       ReschedulePatch(links.reschedule.token,
                       RequestedSlots(response.meetingTypeId, now), fb, fails)
  \/ \E token \in OtherTokens :
       ReschedulePatch(token, { response.slot }, << >>, NoFailure)

SpecBook == InitBook /\ [][NextBook]_vars

InitAlias ==
  /\ ConfigFixed
  /\ now = SignEpoch
  /\ avail = AvailIdle
  /\ secret = 1 /\ link = LinkNone /\ check = CheckNone
  /\ RoutesIdle
  /\ AliasesIdle

NextAlias ==
  \/ \E input \in RegisterInputs(now), draws \in RandomDraws :
       RegisterAlias(input[1], input[2], draws)
  \/ \E alias \in AliasInputs : ResolveAlias(alias)
  \/ PurgeAliases
  \/ Tick

SpecAlias == InitAlias /\ [][NextAlias]_vars

\* Manage links are registered and their short links are visited.
InitAliasPage == InitAlias

NextAliasPage ==
  \/ \E input \in RegisterInputs(now), draws \in RandomDraws :
       RegisterAlias(input[1], input[2], draws)
  \/ \E alias \in AliasPool : VisitAlias(alias)
  \/ Tick

SpecAliasPage == InitAliasPage /\ [][NextAliasPage]_vars

\* A manage link is signed, describeManagementLinks registers its alias with
\* the link's own expiresAt, and the guest follows the short link while the
\* clock runs: the alias is resolved and the token it stands for is verified.
ManagePayloads(nowMs) ==
  UNION { { BasePayload(Actions.manage, x),
            [BasePayload(Actions.manage, x) EXCEPT !.guestName = Text_name] }
          : x \in AliasExpiryInputs(nowMs) }

InitShortLink == InitAlias

NextShortLink ==
  \/ \E payload \in ManagePayloads(now) : SignLink(payload)
  \/ /\ link.status = "signed"
     /\ \E draws \in RandomDraws :
          RegisterAlias(link.token, link.payload.expiresAt, draws)
  \/ lastIssued.alias # NoAlias /\ ResolveAlias(lastIssued.alias)
  \/ CheckLink
  \/ Tick

SpecShortLink == InitShortLink /\ [][NextShortLink]_vars

\* Two processes register a token each and a third resolves an alias, all at
\* the same store file.
InitStoreFile == InitAlias

NextStoreFile ==
  \/ \E p \in {1, 2}, expiresAt \in AliasExpiryInputs(now), draws \in RandomDraws :
       StartRegister(p, << p >>, expiresAt, draws)
  \/ \E alias \in AliasPool : StartResolve(3, alias)
  \/ \E p \in Procs : StepOpen(p)
  \/ \E p \in Procs : StepWrite(p)
  \/ \E p \in Procs : StepRename(p)

SpecStoreFile == InitStoreFile /\ [][NextStoreFile]_vars

\* Links are minted for bookings while the clock runs.
InitLinks == InitSign

NextLinks ==
  \/ \E payload \in BookingPayloads, reads \in ClockReads(now) : CreateLinks(payload, reads)
  \/ Tick

SpecLinks == InitLinks /\ [][NextLinks]_vars

\* The guest of a confirmed booking uses the links.
InitGuest ==
  /\ ConfigFixed
  /\ now = GuestEpoch
  /\ secret = 1 /\ link = LinkNone /\ check = CheckNone
  /\ calendarIds = << Text_p >>
  /\ \E slot \in RequestedSlots("intro-30", now) :
     \E outcome \in { BookOutcome("intro-30", slot, TRUE, << >>, NoFailure) } :
       /\ outcome.status = "confirmed"
       /\ response = [handler |-> "book", status |-> outcome.status,
                      http |-> outcome.http, meetingTypeId |-> "intro-30",
                      slot |-> slot]
       /\ avail = outcome.lookup
       /\ calls = outcome.calls
       /\ links = outcome.links
  /\ AliasesIdle
  /\ GuestIdle
  /\ resolution = ResolutionIdle(now)

NextGuest ==
  \/ \E token \in HeldTokens,
        fails \in { NoFailure, Failure("updateEvent", 500), Failure("secondUpdate", 500) } :
       GuestPatch(token, RequestedSlots(response.meetingTypeId, now), << >>, fails)

SpecGuest == InitGuest /\ [][NextGuest]_vars

\* One availability resolution; the module was loaded at the instant of the
\* call or a day before it.
InitFallback ==
  /\ ConfigInit
  /\ avail = AvailIdle
  /\ secret = 1 /\ link = LinkNone /\ check = CheckNone
  /\ calendarIds = << Text_p >>
  /\ links = LinksNone
  /\ response = ResponseNone
  /\ calls = << >>
  /\ GuestIdle
  /\ resolution \in { ResolutionIdle(now), ResolutionIdle(now - MinutesPerDay) }
  /\ AliasesIdle

NextFallback ==
  \E id \in MeetingTypeIds :
    \E answer \in { AnswerOf(fb) : fb \in RequestBusyAnswers(now) } \cup CalendarErrors :
      ResolveAvailability(id, answer)

SpecFallback == InitFallback /\ [][NextFallback]_vars

\* The guest of a confirmed booking calls the cancel, manage and reschedule
\* pages with the links, while time passes.
InitEndpoints == InitGuest

NextEndpoints ==
  \/ \E token \in HeldTokens : CancelPost(token, NoFailure)
  \/ \E fails \in CancelFailures : CancelPost(links.cancel.token, fails)
  \/ \E token \in HeldTokens : ManageGet(token, NoFailure)
  \/ ManageGet(links.manage.token, Failure("alias", 0))
  \/ \E token \in HeldTokens : RescheduleGet(token, AnswerOf(<< >>))
  \/ \E answer \in CalendarErrors : RescheduleGet(links.reschedule.token, answer)
  \/ Elapse

SpecEndpoints == InitEndpoints /\ [][NextEndpoints]_vars

\* Two guests book at the same time.
InitRace ==
  /\ ConfigFixed
  /\ now = GuestEpoch
  /\ avail = AvailIdle
  /\ secret = 1 /\ link = LinkNone /\ check = CheckNone
  /\ RoutesIdle
  /\ AliasesIdle

NextRace ==
  \/ \E p \in Bookers, id \in {"intro-30", "deep-45"} :
       \E slot \in RequestedSlots(id, now) : BookPreCheck(p, id, slot)
  \/ \E p \in Bookers, ok \in BOOLEAN : BookCreate(p, ok)
  \/ \E i \in 1..Cardinality(Bookers) : ShowEvent(i)

SpecRace == InitRace /\ [][NextRace]_vars

\* The guest of a confirmed booking, whose event the provider returned in
\* either form, opens the reschedule page and moves the meeting.
InitCurrent ==
  /\ ConfigFixed
  /\ now = GuestEpoch
  /\ secret = 1 /\ link = LinkNone /\ check = CheckNone
  /\ calendarIds = << Text_p >>
  /\ \E slot \in RequestedSlots("intro-30", now), form \in ProviderForms :
     \E outcome \in { BookOutcomeAs("intro-30", slot, TRUE, << >>, NoFailure, form) } :
       /\ outcome.status = "confirmed"
       /\ response = [handler |-> "book", status |-> outcome.status,
                      http |-> outcome.http, meetingTypeId |-> "intro-30",
                      slot |-> slot]
       /\ avail = outcome.lookup
       /\ calls = outcome.calls
       /\ links = outcome.links
  /\ AliasesIdle
  /\ GuestIdle
  /\ resolution = ResolutionIdle(now)

NextCurrent ==
  \/ \E answer \in { AnswerOf(<< >>) } \cup CalendarErrors :
       RescheduleGet(links.reschedule.token, answer)
  \/ \E token \in HeldTokens :
       GuestPatch(token, RequestedSlots(response.meetingTypeId, now), << >>, NoFailure)

SpecCurrent == InitCurrent /\ [][NextCurrent]_vars

\* Keys tokens are signed with: the server's secret, and a key of somebody
\* else.
SigningKeys == {1, 2}

\* Tokens a client may present: payloads of every action, with an expiresAt
\* before, at and after the instant or no date at all, signed with either key.
PresentedTokens(nowMs) ==
  { SignLinkPayload(payload, key) : payload \in PayloadInputs(nowMs), key \in SigningKeys }

\* A server with or without its signing secret and calendar id gets one
\* request with a presented token.
InitPresent ==
  /\ ConfigFixed
  /\ now = GuestEpoch
  /\ avail = AvailIdle
  /\ secret \in Secrets /\ link = LinkNone /\ check = CheckNone
  /\ calendarIds \in CalendarIdSettings
  /\ links = LinksNone
  /\ response = ResponseNone
  /\ calls = << >>
  /\ GuestIdle
  /\ resolution = ResolutionIdle(now)
  /\ AliasesIdle

NextPresent ==
  /\ request.n = 0
  /\ \/ \E token \in PresentedTokens(now), fails \in CancelFailures :
          CancelPost(token, fails)
     \/ \E token \in PresentedTokens(now) : ManageGet(token, NoFailure)
     \/ \E token \in PresentedTokens(now) : RescheduleGet(token, AnswerOf(<< >>))
     \/ \E token \in PresentedTokens(now) :
          GuestPatch(token, RequestedSlots("intro-30", now), << >>, NoFailure)

SpecPresent == InitPresent /\ [][NextPresent]_vars

\* ------------------------------------------------- Link Signer properties
RequiredPresent(payload) ==
  /\ ~Falsy(payload.action) /\ ~Falsy(payload.meetingTypeId)
  /\ ~Falsy(payload.eventId) /\ ~Falsy(payload.guestEmail)

\* The link was signed, not altered, and presented.
PresentedIntact == check.done /\ link.status = "signed"

\* C1: verifySignedLink(signLinkPayload(payload)) returns the payload, field
\* for field, when the payload has its required fields and its expiresAt is
\* not in the past at the time of the call.
C1_RoundTrip ==
  (/\ PresentedIntact
   /\ RequiredPresent(link.payload)
   /\ DateParse(link.payload.expiresAt).finite
   /\ DateParse(link.payload.expiresAt).value >= check.at)
  => /\ check.verified.kind = "payload"
     /\ \A f \in Fields : check.verified.payload[f] = link.payload[f]

\* A payload with every field set, a name that needs escaping, verified at
\* the very instant of its expiresAt after the clock has advanced.
C1_Witness ==
  /\ PresentedIntact
  /\ check.verified.kind = "payload"
  /\ \A f \in Fields : link.payload[f] # Undefined
  /\ Ch.quote \in Range(link.payload.guestName)
  /\ DateParse(link.payload.expiresAt).value = check.at
  /\ link.signedAt < check.at

\* C2: a token whose payload segment had one character replaced, with the
\* signature segment kept, does not verify.
C2_TamperDetected ==
  (check.done /\ link.status = "tampered") => check.verified = Null

\* A tampered token that still decodes, to a different payload with its
\* required fields and an expiresAt that has not passed.
C2_Witness ==
  /\ check.done /\ link.status = "tampered"
  /\ check.decoded.kind = "payload"
  /\ check.decoded.payload # link.payload
  /\ RequiredPresent(check.decoded.payload)
  /\ check.decoded.payload.expiresAt # Undefined
  /\ DateParse(check.decoded.payload.expiresAt).finite
  /\ DateParse(check.decoded.payload.expiresAt).value >= check.at

\* C3: a correctly signed payload whose expiresAt is in the past at the time
\* of the call does not verify, while decodeSignedLinkPayload returns it.
C3_ExpiredRejectedButDecoded ==
  (/\ PresentedIntact
   /\ DateParse(link.payload.expiresAt).finite
   /\ DateParse(link.payload.expiresAt).value < check.at)
  => /\ check.verified = Null
     /\ check.decoded = Some(link.payload)

\* A complete payload that was valid when signed and expired while held.
C3_Witness ==
  /\ PresentedIntact
  /\ RequiredPresent(link.payload)
  /\ DateParse(link.payload.expiresAt).finite
  /\ link.signedAt <= DateParse(link.payload.expiresAt).value
  /\ DateParse(link.payload.expiresAt).value < check.at
  /\ check.verified = Null

\* ------------------------------------------------ Orchestration properties
\* The request reached its availability pre-check.
PreChecked == response.handler \in {"book", "reschedule"} /\ avail.status = "ok"

\* The requested pair is in the set the request's own lookup computed, under
\* some date key.
RequestedSlotEmitted ==
  \E d \in DOMAIN avail.slotsByDate :
    \E i \in DOMAIN avail.slotsByDate[d] : avail.slotsByDate[d][i] = response.slot

\* The request was turned down by the pre-check: 409 with conflict (Book) or
\* unavailable (PATCH), and no calendar mutation was issued.
RejectedByPreCheck ==
  /\ response.http = 409
  /\ response.status = (IF response.handler = "book" THEN "conflict" ELSE "unavailable")
  /\ calls = << >>

\* C4: Book answers conflict (409) without a createEvent call exactly when the
\* requested (start, end) pair is absent from the freshly computed available
\* set, so a slot the engine has just emitted under any date key is never
\* rejected; the same holds for the unavailable pre-check of Reschedule PATCH.
C4_ConflictExactlyWhenAbsent ==
  PreChecked => (RejectedByPreCheck <=> ~RequestedSlotEmitted)

\* ------------------------------------------------- Slot Engine properties
SlotStart(slot) == DateParseIso(slot.start)
SlotEnd(slot) == DateParseIso(slot.end)

\* The host-local dates of the look-ahead window of an instant.
WindowDates(nowUtc) ==
  LET today == FormatDate(ToZonedTime(nowUtc)) IN today..(today + MaxDaysOut)

Answered ==
  avail.status = "ok" /\ GetMeetingTypeById(avail.meetingTypeId) # NoMeetingType

ValidBusy(interval) == interval.end > interval.start

\* C5: no emitted slot overlaps a supplied busy interval (half-open test),
\* for every now, meeting type and free-busy answer, offset changes included.
C5_NoSlotOverlapsBusy ==
  Answered =>
    \A d \in DOMAIN avail.slotsByDate :
      \A i \in DOMAIN avail.slotsByDate[d] :
        \A k \in DOMAIN avail.freeBusy :
          ValidBusy(avail.freeBusy[k]) =>
            ~(/\ SlotStart(avail.slotsByDate[d][i]) < avail.freeBusy[k].end
              /\ SlotEnd(avail.slotsByDate[d][i]) > avail.freeBusy[k].start)

\* C6: with no busy intervals, no emitted slot starts in host-local hour 12
\* and none starts before now + minNoticeMinutes.
C6_NoLunchNoEarlySlot ==
  (Answered /\ avail.freeBusy = << >>) =>
    \A d \in DOMAIN avail.slotsByDate :
      \A i \in DOMAIN avail.slotsByDate[d] :
        LET start == SlotStart(avail.slotsByDate[d][i]) IN
        /\ (ToZonedTime(start) % MinutesPerDay) \div MinutesPerHour # 12
        /\ start >= avail.nowUtc + minNoticeMinutes

\* A day whose rule starts before now + minNoticeMinutes and runs over noon
\* still yields slots in the morning and in the afternoon.
C6_Witness ==
  /\ Answered /\ avail.freeBusy = << >>
  /\ \E d \in DOMAIN avail.slotsByDate :
       LET rule == GetRuleForDate(d)
           slots == avail.slotsByDate[d]
       IN /\ rule # NoRule
          /\ FromZonedTime(d * MinutesPerDay + rule.start)
               < avail.nowUtc + minNoticeMinutes
          /\ \E i \in DOMAIN slots : GetHours(ToZonedTime(SlotStart(slots[i]))) = 11
          /\ \E i \in DOMAIN slots : GetHours(ToZonedTime(SlotStart(slots[i]))) = 13

ScenarioCase ==
  /\ Answered
  /\ avail.meetingTypeId = "intro-30"
  /\ ToZonedTime(avail.nowUtc) = 5 * MinutesPerDay + 480
  /\ Rule("wednesday", 540, 1020) \in Range(rules)
  /\ minNoticeMinutes = 0
  /\ avail.freeBusy = << >>

\* Host-local start minutes 09:00 ... 11:30, 12:30 ... 16:30 (16 starts).
ScenarioStarts16 ==
  [i \in 1..16 |-> IF i <= 6 THEN 540 + 30 * (i - 1) ELSE 750 + 30 * (i - 7)]

\* Host-local start minutes 09:00 ... 11:30, 13:00 ... 16:30 (14 starts).
ScenarioStarts14 ==
  [i \in 1..14 |-> IF i <= 6 THEN 540 + 30 * (i - 1) ELSE 780 + 30 * (i - 7)]

\* The slots of Wednesday (day 5) start at the given host-local minutes and
\* are 30 minutes long.
WednesdayStartsAre(starts) ==
  /\ 5 \in DOMAIN avail.slotsByDate
  /\ Len(avail.slotsByDate[5]) = Len(starts)
  /\ \A i \in DOMAIN starts :
       /\ ToZonedTime(SlotStart(avail.slotsByDate[5][i])) = 5 * MinutesPerDay + starts[i]
       /\ SlotEnd(avail.slotsByDate[5][i]) = SlotStart(avail.slotsByDate[5][i]) + 30

\* C7 as stated: 30-minute type, Wednesday 09:00-17:00, now = Wednesday 08:00
\* host time, no notice, no busy intervals: the day has the 16 slots 09:00 ...
\* 11:30, 12:30 ... 16:30 host time, only 12:00 being left out.
C7_WednesdayScenarioSixteen == ScenarioCase => WednesdayStartsAre(ScenarioStarts16)

\* C7 as amended: in that scenario the day has the 14 slots 09:00 ... 11:30,
\* 13:00 ... 16:30 host time; both 12:00 and 12:30 are left out.
C7_WednesdayScenario == ScenarioCase => WednesdayStartsAre(ScenarioStarts14)

C7_Witness == ScenarioCase /\ 5 \in DOMAIN avail.slotsByDate

BusyAsSlot(interval) ==
  [start |-> ToISOString(interval.start), end |-> ToISOString(interval.end)]

\* C8: one busy interval equal to a candidate slot removes that slot from the
\* day and nothing else.
C8_ExactBusyRemovesOneSlot ==
  LET free == GetAvailabilityByDate(avail.meetingTypeId, avail.nowUtc, << >>)
      taken == BusyAsSlot(avail.freeBusy[1])
  IN (/\ Answered
      /\ Len(avail.freeBusy) = 1
      /\ \E d \in DOMAIN free : \E i \in DOMAIN free[d] : free[d][i] = taken)
     => /\ DOMAIN avail.slotsByDate = DOMAIN free
        /\ \A d \in DOMAIN free :
             avail.slotsByDate[d] = SelectSeq(free[d], LAMBDA slot : slot # taken)

\* C9: every date of the look-ahead window without a rule is a key of the
\* result, with an empty list.
C9_NoRuleEmptyDay ==
  Answered =>
    \A d \in WindowDates(avail.nowUtc) :
      GetRuleForDate(d) = NoRule =>
        d \in DOMAIN avail.slotsByDate /\ avail.slotsByDate[d] = << >>

\* C10: every emitted slot is durationMinutes long and lies inside the rule
\* window of its day, read on the host wall clock.
C10_SlotInsideRuleWindow ==
  Answered =>
    \A d \in DOMAIN avail.slotsByDate :
      \A i \in DOMAIN avail.slotsByDate[d] :
        LET slot == avail.slotsByDate[d][i]
            rule == GetRuleForDate(d)
        IN /\ SlotEnd(slot) = SlotStart(slot)
                 + GetMeetingTypeById(avail.meetingTypeId).durationMinutes
           /\ rule # NoRule
           /\ d * MinutesPerDay + rule.start <= ToZonedTime(SlotStart(slot))
           /\ ToZonedTime(SlotEnd(slot)) <= d * MinutesPerDay + rule.end

\* A day whose rule window is no multiple of the duration: the last slot ends
\* before the rule does.
C10_Witness ==
  /\ Answered
  /\ \E d \in DOMAIN avail.slotsByDate :
       LET slots == avail.slotsByDate[d]
           rule == GetRuleForDate(d)
       IN /\ slots # << >>
          /\ (rule.end - rule.start)
               % GetMeetingTypeById(avail.meetingTypeId).durationMinutes # 0
          /\ ToZonedTime(SlotEnd(slots[Len(slots)])) < d * MinutesPerDay + rule.end
          /\ ToZonedTime(SlotEnd(slots[Len(slots)]))
               + GetMeetingTypeById(avail.meetingTypeId).durationMinutes
               > d * MinutesPerDay + rule.end

\* ------------------------------------------------- Alias Store properties
\* The records of the store file before and after the last call.
RecordsBefore == ReadAliasStore(aliasOp.before).records
RecordsAfter == ReadAliasStore(aliasStore).records
AliasesOf(records) == { records[i].alias : i \in DOMAIN records }

\* An expiresAt that has not been reached at instant t, and one that t has
\* reached or passed.
NotYetExpired(expiresAt, t) ==
  ~DateParse(expiresAt).finite \/ t < DateParse(expiresAt).value
Lapsed(expiresAt, t) ==
  DateParse(expiresAt).finite /\ DateParse(expiresAt).value <= t

\* C11: registerAlias returns the alias under which it stores the token, and
\* a call for a token that an earlier call registered and that is unexpired
\* returns that same alias and adds no record to the store.
C11_SameAliasNoNewRecord ==
  aliasOp.op = "register" =>
    /\ aliasOp.alias # NoAlias =>
         RecordOf(RecordsAfter, aliasOp.alias).token = aliasOp.token
    /\ \A i \in DOMAIN RecordsBefore :
         (/\ RecordsBefore[i].record.token = aliasOp.token
          /\ NotYetExpired(RecordsBefore[i].record.expiresAt, aliasOp.at))
         => /\ aliasOp.alias = RecordsBefore[i].alias
            /\ AliasesOf(RecordsAfter) \subseteq AliasesOf(RecordsBefore)

\* A second call for a token registered at an earlier instant, made while
\* another token's record is in the store.
C11_Witness ==
  /\ aliasOp.op = "register"
  /\ Len(RecordsBefore) = 2
  /\ \E i \in DOMAIN RecordsBefore :
       /\ RecordsBefore[i].record.token = aliasOp.token
       /\ RecordsBefore[i].record.createdAt < aliasOp.at
       /\ NotYetExpired(RecordsBefore[i].record.expiresAt, aliasOp.at)
       /\ aliasOp.alias = RecordsBefore[i].alias

\* C12: the store never holds two unexpired records with the same token.
C12_OneLiveAliasPerToken ==
  \A i \in DOMAIN RecordsAfter : \A j \in DOMAIN RecordsAfter :
    (/\ i # j
     /\ RecordsAfter[i].record.token = RecordsAfter[j].record.token)
    => ~(/\ NotYetExpired(RecordsAfter[i].record.expiresAt, now)
         /\ NotYetExpired(RecordsAfter[j].record.expiresAt, now))

\* A token is registered again after its record has expired, next to the live
\* record of another token.
C12_Witness ==
  /\ aliasOp.op = "register"
  /\ aliasOp.alias # NoAlias
  /\ Len(RecordsAfter) = 2
  /\ \E i \in DOMAIN RecordsBefore :
       /\ RecordsBefore[i].record.token = aliasOp.token
       /\ Lapsed(RecordsBefore[i].record.expiresAt, aliasOp.at)

\* C13 as stated: an alias that resolveAlias has found expired (and answered
\* with null) is included in the count of the purgeExpired that follows.
C13_ResolvedNullThenCounted ==
  aliasOp.op = "purge" =>
    \A alias \in aliasOp.seen :
      alias \in AliasesOf(RecordsBefore) \ AliasesOf(RecordsAfter)

\* C13 as amended: resolveAlias on an alias whose expiresAt has passed returns
\* null and deletes its record; purgeExpired returns the number of expired
\* records that are still in the store and deletes them, so an alias is
\* counted once if purgeExpired is the first to touch it after its expiry and
\* not at all once resolveAlias has deleted it.
C13_ExpiredResolvesNullCountedOnce ==
  /\ (/\ aliasOp.op = "resolve"
      /\ HasAlias(RecordsBefore, aliasOp.alias)
      /\ Lapsed(RecordOf(RecordsBefore, aliasOp.alias).expiresAt, aliasOp.at))
     => /\ aliasOp.record = NoRecord
        /\ ~HasAlias(RecordsAfter, aliasOp.alias)
  /\ aliasOp.op = "purge" =>
       /\ aliasOp.count =
            Cardinality({ i \in DOMAIN RecordsBefore :
                          Lapsed(RecordsBefore[i].record.expiresAt, aliasOp.at) })
       /\ aliasOp.count =
            Cardinality(AliasesOf(RecordsBefore) \ AliasesOf(RecordsAfter))
       /\ \A i \in DOMAIN RecordsAfter :
            ~Lapsed(RecordsAfter[i].record.expiresAt, aliasOp.at)
       /\ \A alias \in aliasOp.seen : ~HasAlias(RecordsBefore, alias)

\* Two aliases have expired; resolveAlias has deleted one, and purgeExpired
\* counts the other.
C13_Witness ==
  /\ aliasOp.op = "purge"
  /\ aliasOp.count = 1
  /\ aliasOp.seen # {}

\* C14: an alias returned by registerAlias(token, expiresAt) resolves, at
\* every time before that expiresAt, to a record with the token and the
\* expiresAt of that call, whatever calls were made in between.
C14_AliasResolvesToItsRegistration ==
  (/\ aliasOp.op = "resolve"
   /\ lastIssued.alias # NoAlias
   /\ aliasOp.alias = lastIssued.alias
   /\ DateParse(lastIssued.expiresAt).finite
   /\ aliasOp.at < DateParse(lastIssued.expiresAt).value)
  => /\ aliasOp.record.token = lastIssued.token
     /\ aliasOp.record.expiresAt = lastIssued.expiresAt

\* ------------------------------------------------- store file properties
\* The texts that calls have handed to writeFileSync so far.
WrittenInFull ==
  { procs[q].text : q \in { r \in Procs : procs[r].pc \in {"write", "rename", "done"}
                                          /\ procs[r].text # procs[r].read.text } }

\* C15: whatever the interleaving of the writers' steps (write the temp file,
\* rename it over the store file) and the readers, every read of the store
\* file returns a document that some writer wrote in full.
C15_ReadsSeeWholeDocuments ==
  \A p \in Procs :
    (procs[p].pc # "idle" /\ procs[p].read.exists)
    => procs[p].read.text \in WrittenInFull

\* ------------------------------------------ management link properties
\* What a token says about the booking, apart from its action and expiry.
BookingIdentity(payload) ==
  [payload EXCEPT !.action = Undefined, !.expiresAt = Undefined]

LinkPayload(signedLink) == DecodeSignedLinkPayload(signedLink.token).payload

\* C16: the three tokens createManagementLinks returns are one per action
\* cancel, reschedule and manage, and all carry the same expiresAt and the same
\* booking identity, also when the clock advances while the call runs.
C16_LinksShareOneExpiry ==
  links # LinksNone =>
    LET cancel == LinkPayload(links.cancel)
        reschedule == LinkPayload(links.reschedule)
        manage == LinkPayload(links.manage)
    IN /\ cancel.action = Actions.cancel
       /\ reschedule.action = Actions.reschedule
       /\ manage.action = Actions.manage
       /\ links.cancel.expiresAt = links.reschedule.expiresAt
       /\ links.reschedule.expiresAt = links.manage.expiresAt
       /\ cancel.expiresAt = reschedule.expiresAt
       /\ reschedule.expiresAt = manage.expiresAt
       /\ BookingIdentity(cancel) = BookingIdentity(reschedule)
       /\ BookingIdentity(reschedule) = BookingIdentity(manage)

\* --------------------------------------------- guest request properties
Rejections == { "invalid_token", "expired" }

\* C17: after a Reschedule PATCH has returned rescheduled, the token used for
\* it and the other links issued before it for the booking no longer verify,
\* and a later request with one of them is rejected.
C17_ReplacedTokensRejected ==
  /\ \A token \in OldTokens : VerifySignedLink(token, secret, now).kind # "payload"
  /\ request.old => response.status \in Rejections

\* ------------------------------------------- availability fallback properties
Configured(meetingTypeId) == GetMeetingTypeById(meetingTypeId) # NoMeetingType

\* C19: getAvailabilityWithFallback always returns a resolution: when the
\* calendar collaborator fails, source mock, fallback true, the causing
\* error's message and exactly the slots of the mock schedule; when it
\* answers, source google and fallback false; and in every result fallback is
\* true exactly when source is mock.
C19_FallbackResolution ==
  resolution.called =>
    LET result == resolution.result
        answer == resolution.answer
        id == resolution.meetingTypeId
    IN /\ result.source \in {"mock", "google"}
       /\ result.fallback <=> result.source = "mock"
       /\ (Configured(id) /\ ~answer.ok) =>
            /\ result.source = "mock" /\ result.fallback
            /\ result.message = answer.message
            /\ result.slotsByDate =
                 GetMockSlotsByDate(id, resolution.at, resolution.blocked)
       /\ (Configured(id) /\ answer.ok) =>
            /\ result.source = "google" /\ ~result.fallback
            /\ result.slotsByDate = GetAvailabilityByDate(id, resolution.at, answer.freeBusy)

\* The collaborator failed and the mock schedule misses a slot that an empty
\* calendar would offer: a blocked start is withheld.
C19_Witness ==
  /\ resolution.called /\ ~resolution.answer.ok
  /\ Configured(resolution.meetingTypeId)
  /\ resolution.result.fallback
  /\ resolution.result.slotsByDate #
       GetAvailabilityByDate(resolution.meetingTypeId, resolution.at, << >>)

\* ------------------------------------------------ endpoint token properties
\* The action an endpoint serves.
EndpointAction(handler) ==
  CASE handler = "cancel" -> Actions.cancel
    [] handler = "manage" -> Actions.manage
    [] OTHER -> Actions.reschedule

\* The latest request's token as the handler saw it.
RequestDecoded == DecodeSignedLinkPayload(request.token)
RequestVerifies == VerifySignedLink(request.token, secret, request.at).kind = "payload"

\* The endpoint went on past its token checks.
Acted == calls # << >> \/ response.status \in {"ok", "cancelled", "rescheduled", "not_found"}

\* C18: an endpoint acts only for a verified token of its own action, and a
\* validly signed token of another action yields invalid_token and no
\* calendar call.
C18_TokenAuthorizesOwnAction ==
  request.handler # "none" =>
    /\ Acted => (RequestVerifies
                 /\ RequestDecoded.payload.action = EndpointAction(request.handler))
    /\ (RequestVerifies
        /\ RequestDecoded.payload.action # EndpointAction(request.handler))
       => (response.status = "invalid_token" /\ calls = << >>)

\* C20: with a token that verifies and a calendar that answers for the event
\* as it is, cancel returns cancelled while the event exists and not_found,
\* never google_error or error, on every call after that.
C20_CancelledThenNotFound ==
  (request.handler = "cancel" /\ request.fails = NoFailure /\ RequestVerifies) =>
    /\ request.eventBefore.state = "active" =>
         (response.status = "cancelled"
          /\ event = [state |-> "deleted", by |-> request.token])
    /\ request.eventBefore.state = "deleted" =>
         (response.status = "not_found" /\ event = request.eventBefore)

\* A third cancel with the token that cancelled the event, at the last
\* instant at which it verifies.
C20_Witness ==
  /\ request.handler = "cancel" /\ request.fails = NoFailure /\ RequestVerifies
  /\ request.n = 3
  /\ request.eventBefore = [state |-> "deleted", by |-> request.token]
  /\ request.at = GuestEpoch + DEFAULT_MANAGEMENT_LINK_TTL_MS
  /\ response.status = "not_found"

\* The handler of the latest request called verifySignedLink on a token that
\* decodes, and got null.
VerifyFailed ==
  /\ request.handler \in {"cancel", "manage", "rescheduleGet", "reschedule"}
  /\ request.token # << >>
  /\ RequestDecoded.kind = "payload"
  /\ (request.handler = "cancel"
      \/ RequestDecoded.payload.action = EndpointAction(request.handler))
  /\ VerifySignedLink(request.token, secret, request.at) = Null

\* The decoded expiresAt is a date before the instant of the request.
ExpiresAtInPast ==
  LET expiresAt == RequestDecoded.payload.expiresAt IN
  /\ expiresAt # Undefined
  /\ DateParse(expiresAt).finite
  /\ DateParse(expiresAt).value < request.at

\* C21: when verifySignedLink fails for a token that decodes, in cancel,
\* reschedule or manage, the status is expired exactly when the decoded
\* expiresAt is in the past and invalid_token otherwise, and no calendar
\* mutation is issued.
C21_ExpiredOrInvalid ==
  VerifyFailed =>
    /\ response.status = (IF ExpiresAtInPast THEN "expired" ELSE "invalid_token")
    /\ response.http = (IF ExpiresAtInPast THEN 410 ELSE 400)
    /\ calls = << >>

\* A reschedule PATCH presents a token of its action that is signed with
\* another key and whose expiresAt is the instant of the request.
C21_Witness ==
  /\ VerifyFailed
  /\ request.handler = "reschedule"
  /\ DateParse(RequestDecoded.payload.expiresAt).finite
  /\ DateParse(RequestDecoded.payload.expiresAt).value = request.at
  /\ response.status = "invalid_token"

\* The latest request is a PATCH whose token verifies and whose slot.start
\* is the slotStart of the token.
PatchOfCurrentSlot ==
  /\ request.handler = "reschedule"
  /\ RequestVerifies
  /\ RequestDecoded.payload.action = Actions.reschedule
  /\ RequestDecoded.payload.slotStart = IsoText(response.slot.start)

\* C22: a reschedule PATCH whose slot.start equals the slotStart of its
\* verified token is answered unchanged, and it makes no calendar call, mints
\* no links and registers no alias.
C22_UnchangedHasNoEffect ==
  PatchOfCurrentSlot =>
    /\ response.status = "unchanged" /\ response.http = 400
    /\ calls = << >>
    /\ links = request.linksBefore
    /\ request.registered = << >>

\* After a reschedule the guest asks, with the new reschedule link, for the
\* slot the meeting was just moved to.
C22_Witness ==
  /\ PatchOfCurrentSlot
  /\ replaced # {}
  /\ request.token = links.reschedule.token
  /\ response.status = "unchanged"

\* The latest request is a reschedule PATCH that was answered rescheduled.
Rescheduled ==
  request.handler = "reschedule" /\ response.status = "rescheduled"

NotifyingCalls == { i \in DOMAIN calls : calls[i].sendUpdates = "all" }

\* C23: a successful reschedule PATCH issues exactly two updateEvent calls on
\* the event of the token: the first with sendUpdates none and the new start
\* and end, the second with sendUpdates all and the description that carries
\* the new manage link; no PATCH issues more than one update with sendUpdates
\* all.
C23_TwoStepUpdate ==
  /\ Rescheduled =>
        /\ Len(calls) = 2
        /\ \A i \in 1..2 : /\ calls[i].op = "updateEvent"
                            /\ calls[i].eventId = RequestDecoded.payload.eventId
        /\ calls[1].sendUpdates = "none"
        /\ calls[1].start = response.slot.start /\ calls[1].end = response.slot.end
        /\ calls[1].description = Undefined
        /\ calls[1].ok
        /\ calls[2].sendUpdates = "all"
        /\ calls[2].description = links.manage.token
  /\ request.handler = "reschedule" => Cardinality(NotifyingCalls) <= 1

\* A reschedule with the link of the booking moved the meeting.
C23_Witness ==
  /\ Rescheduled
  /\ request.n = 1
  /\ Len(calls) = 2 /\ calls[2].ok
  /\ IsoText(response.slot.start) # RequestDecoded.payload.slotStart

\* The primary calendar call of the latest request succeeded and only the
\* description update after it failed.
OnlySecondUpdateFailed ==
  /\ response.handler \in {"book", "reschedule"}
  /\ Len(calls) = 2
  /\ calls[1].ok /\ ~calls[2].ok
  /\ calls[1].op = (IF response.handler = "book" THEN "createEvent" ELSE "updateEvent")

\* The links of the response are management links for the slot of the request.
LinksForSlot ==
  \A l \in { links.cancel, links.reschedule, links.manage } :
    /\ VerifySignedLink(l.token, secret, now).kind = "payload"
    /\ DecodeSignedLinkPayload(l.token).payload.slotStart = IsoText(response.slot.start)

\* C24: when createEvent of Book or the first updateEvent of PATCH succeeded
\* and only the following description update fails, the response is still
\* confirmed (201) or rescheduled, with the management links.
C24_SecondUpdateBestEffort ==
  OnlySecondUpdateFailed =>
    /\ response.status = (IF response.handler = "book" THEN "confirmed" ELSE "rescheduled")
    /\ response.http = (IF response.handler = "book" THEN 201 ELSE 200)
    /\ LinksForSlot

\* The description update of a booking failed.
C24_Witness ==
  OnlySecondUpdateFailed /\ response.handler = "book" /\ response.status = "confirmed"

\* new Date(text) for the texts a slotStart can be: the instant of either form.
InstantOfDateTime(text) ==
  IF Len(text) = 8 THEN DateParse(text).value
  ELSE Number(SubSeq(text, 1, 2)) * MinutesPerDay + Number(SubSeq(text, 4, 7))
       + Number(SubSeq(text, 9, 10)) * MinutesPerHour

ServedStarts ==
  UNION { { DateParseIso(resolution.served[d][i].start) :
              i \in DOMAIN resolution.served[d] } : d \in DOMAIN resolution.served }

\* C25: the slots returned by reschedule GET never contain the guest's
\* current slot, the one at the slotStart of the token, whether the
\* availability came from the calendar or from the fallback.
C25_CurrentSlotNotOffered ==
  (/\ request.handler = "rescheduleGet"
   /\ response.status = "ok"
   /\ ~Falsy(RequestDecoded.payload.slotStart))
    => InstantOfDateTime(RequestDecoded.payload.slotStart) \notin ServedStarts

\* The provider refused the createEvent call of the latest booking request.
CreateEventFailed ==
  /\ response.handler = "book"
  /\ calls # << >>
  /\ calls[1].op = "createEvent" /\ ~calls[1].ok

\* C26: across book, cancel and reschedule the status error is always sent
\* with HTTP 500 and google_error with HTTP 502, and a failure of the calendar
\* provider during a booking is reported as google_error.
C26_StatusHasOneCode ==
  /\ response.status = "error" => response.http = 500
  /\ response.status = "google_error" => response.http = 502
  /\ CreateEventFailed => response.status = "google_error"

\* The latest request passed the payload and token checks and names a meeting
\* type that is configured with isActive false.
InactiveTypeRequested ==
  /\ response.handler \in {"book", "reschedule"}
  /\ response.status \notin {"invalid", "invalid_token", "expired", "threw"}
  /\ \E i \in DOMAIN MeetingTypes :
       MeetingTypes[i].id = response.meetingTypeId /\ ~MeetingTypes[i].isActive

\* C27: Book and Reschedule answer a meeting type that is configured but not
\* active with unknown_meeting_type (404), and make no availability lookup
\* and no calendar call for it.
C27_InactiveTypeRejected ==
  InactiveTypeRequested =>
    /\ response.status = "unknown_meeting_type" /\ response.http = 404
    /\ avail = AvailIdle
    /\ calls = << >>

\* Some call of the latest request that the provider accepted asked it to
\* notify the attendees.
AttendeesNotified ==
  \E i \in DOMAIN calls : calls[i].ok /\ calls[i].sendUpdates = "all"

\* C28: POST /api/book creates the calendar event with sendUpdates=all, so
\* every booking answered confirmed has sent attendee notifications.
C28_BookingNotifiesAttendees ==
  (response.handler = "book" /\ response.status = "confirmed") =>
    /\ calls[1].op = "createEvent" /\ calls[1].sendUpdates = "all"
    /\ AttendeesNotified

\* C29: the date keys of the look-ahead window are the host-local date of
\* now and the following maxDaysOut host-local dates, each once and without
\* gaps, so they are the same for every now within one host-local day, also
\* when the window contains an offset change.
C29_WindowIsHostDates ==
  Answered => DOMAIN avail.slotsByDate = WindowDates(avail.nowUtc)

\* CancelResponse.status
CancelStatuses ==
  { "cancelled", "invalid_token", "expired", "not_found", "google_error", "error" }

\* C30: every cancel POST ends with a response that carries a status of the
\* taxonomy; no token, missing signing secret or calendar id, or failure of a
\* collaborator makes the handler throw instead of answering.
C30_CancelAlwaysAnswers ==
  request.handler = "cancel" => response.status \in CancelStatuses

\* The instants (minutes) a sequence of intervals covers.
Covered(intervals) ==
  UNION { intervals[i].start..(intervals[i].end - 1) : i \in DOMAIN intervals }

ValidRanges(freeBusy) == SelectSeq(freeBusy, ValidBusy)

\* C32: mergeBusyIntervals returns intervals sorted by start that neither
\* overlap nor touch, whose union is the union of the valid inputs (ranges
\* with end <= start are dropped first), and the slots built from the merged
\* set are the slots built from the unmerged valid ranges.
C32_MergedBusyIsMinimal ==
  Answered =>
    LET merged == CollectBusyIntervals(avail.freeBusy) IN
    /\ \A i \in DOMAIN merged : merged[i].end > merged[i].start
    /\ \A i \in 1..(Len(merged) - 1) : merged[i].end < merged[i + 1].start
    /\ Covered(merged) = Covered(ValidRanges(avail.freeBusy))
    /\ avail.slotsByDate =
         BuildAvailabilityCalendar(GetMeetingTypeById(avail.meetingTypeId),
           GetAvailabilityWindow(avail.nowUtc).startDateUtc, avail.nowUtc,
           ValidRanges(avail.freeBusy))

\* C34: a visit of /m/<alias> for an alias that resolveManageLinkAlias
\* resolves ends in a redirect to /manage/<token> of its record; the page
\* ends in not-found only when the alias is unknown or expired or the store
\* cannot be read.
C34_ResolvedAliasRedirects ==
  aliasOp.op = "visit" =>
    /\ (~aliasOp.threw /\ aliasOp.record # NoRecord)
          => aliasOp.page = Redirect(aliasOp.record.token)
    /\ aliasOp.page = NotFound => (aliasOp.threw \/ aliasOp.record = NoRecord)

LinkPayloads ==
  { DecodeSignedLinkPayload(l.token).payload :
      l \in { links.cancel, links.reschedule, links.manage } }

\* C33: the management links of a successful reschedule PATCH carry the new
\* slot as slotStart and slotEnd and the eventId, guestEmail, guestName and
\* meeting type of the verified token, and a later PATCH with the new
\* reschedule link for that same slot is answered unchanged.
C33_NewLinksCarryNewSlot ==
  /\ Rescheduled =>
        \A payload \in LinkPayloads :
          /\ payload.slotStart = IsoText(response.slot.start)
          /\ payload.slotEnd = IsoText(response.slot.end)
          /\ payload.eventId = RequestDecoded.payload.eventId
          /\ payload.guestEmail = RequestDecoded.payload.guestEmail
          /\ payload.guestName = RequestDecoded.payload.guestName
          /\ payload.meetingTypeId = RequestDecoded.payload.meetingTypeId
  /\ (/\ request.handler = "reschedule"
      /\ replaced # {}
      /\ request.token = request.linksBefore.reschedule.token
      /\ \E payload \in { DecodeSignedLinkPayload(l.token).payload :
                            l \in { request.linksBefore.cancel,
                                    request.linksBefore.manage } } :
           payload.slotStart = IsoText(response.slot.start))
       => response.status = "unchanged"

\* The meeting was moved, and the guest asks with the new reschedule link for
\* the slot it was moved to.
C33_Witness ==
  /\ request.n = 2
  /\ Cardinality(replaced) = 1
  /\ request.token = links.reschedule.token
  /\ request.token \notin OldTokens
  /\ LET payload == RequestDecoded.payload IN
       /\ payload.slotStart = IsoText(response.slot.start)
       /\ payload.slotEnd = IsoText(response.slot.end)
  /\ response.status = "unchanged"

EventsBy(p) == { i \in DOMAIN bookers.events : bookers.events[i].by = p }

EventCreated ==
  /\ response.handler = "book"
  /\ calls # << >>
  /\ calls[1].op = "createEvent" /\ calls[1].ok

\* C35: Book never answers with an error status after its createEvent call
\* has succeeded: whenever a calendar event was created for the request the
\* response is confirmed with HTTP 201.
C35_NoErrorAfterCreate ==
  EventCreated => response.status = "confirmed" /\ response.http = 201

\* C36: every Reschedule PATCH answered rescheduled has issued a successful
\* updateEvent call with sendUpdates all, so the attendees are notified of
\* every time change that is reported as successful.
C36_RescheduledNotifies ==
  Rescheduled =>
    \E i \in DOMAIN calls :
      /\ calls[i].op = "updateEvent"
      /\ calls[i].sendUpdates = "all"
      /\ calls[i].ok

\* Processes 1 and 2 have each finished one registerAlias call and no other
\* call has touched the store file.
BothRegistered ==
  /\ \A p \in {1, 2} : procs[p].call = "register" /\ procs[p].pc = "done"
  /\ procs[3].pc = "idle"

\* The record a finished registerAlias call of process p put into the
\* document it handed to writeAliasStore, NoRecord when it wrote none.
OwnRecord(p) ==
  LET read == ReadAliasStore(FileOf(procs[p].text)) IN
  IF ~read.threw /\ procs[p].alias # NoAlias /\ HasAlias(read.records, procs[p].alias)
  THEN RecordOf(read.records, procs[p].alias)
  ELSE NoRecord

\* The store file holds the record of process p under the alias p was given.
KeptInStore(p) ==
  LET read == ReadAliasStore(ReadFileSync(fs)) IN
  /\ ~read.threw
  /\ HasAlias(read.records, procs[p].alias)
  /\ RecordOf(read.records, procs[p].alias).token = << p >>

\* C37: two registerAlias calls for distinct tokens that run concurrently in
\* separate processes both leave their record in the store: neither call
\* throws, and each returned alias (the two being different and the records
\* not expired) is in the store file with its token afterwards.
C37_ConcurrentRegistersKeepBoth ==
  BothRegistered =>
    \A p \in {1, 2} :
      /\ ~procs[p].threw
      /\ (/\ procs[1].alias # procs[2].alias
          /\ OwnRecord(p) # NoRecord
          /\ ~IsExpired(OwnRecord(p).expiresAt, now))
         => KeptInStore(p)

\* The emitted slots of the latest answer, as host wall-clock minutes.
EmittedLocal ==
  UNION { { [start |-> ToZonedTime(SlotStart(avail.slotsByDate[d][i])),
             end |-> ToZonedTime(SlotEnd(avail.slotsByDate[d][i]))] :
              i \in DOMAIN avail.slotsByDate[d] } : d \in DOMAIN avail.slotsByDate }

MinuteOfDay(w) == w % MinutesPerDay

\* The slot has a minute in common with [12:00, 13:00) of the host's day.
IntersectsLunch(slot) ==
  /\ MinuteOfDay(slot.start) < 13 * MinutesPerHour
  /\ slot.end > FormatDate(slot.start) * MinutesPerDay + 12 * MinutesPerHour

\* C38 as stated: no emitted slot intersects the host-local lunch hour
\* [12:00, 13:00); a slot that starts before 12:00 ends at or before 12:00,
\* for every meeting duration and every rule start time.
C38_NoSlotIntersectsLunch ==
  Answered => \A slot \in EmittedLocal : ~IntersectsLunch(slot)

\* C38, amended: the lunch test is on the start hour only.  No emitted slot
\* starts in host-local hour 12; a slot that starts before 12:00 ends at or
\* before 12:00 when 12:00 is a whole number of durations after the start of
\* the day's rule, and only a slot that starts before 12:00 can intersect
\* the lunch hour.
C38_LunchByStartHour ==
  Answered =>
    \A slot \in EmittedLocal :
      LET rule == GetRuleForDate(FormatDate(slot.start))
          duration == GetMeetingTypeById(avail.meetingTypeId).durationMinutes
      IN /\ GetHours(slot.start) # 12
         /\ rule # NoRule
         /\ (12 * MinutesPerHour - rule.start) % duration = 0
              => ~IntersectsLunch(slot)
         /\ IntersectsLunch(slot) =>
              /\ MinuteOfDay(slot.start) < 12 * MinutesPerHour
              /\ MinuteOfDay(slot.start) > 12 * MinutesPerHour - duration

\* A slot that starts before 12:00 and ends after it was emitted.
C38_Witness ==
  /\ Answered
  /\ \E slot \in EmittedLocal :
       /\ MinuteOfDay(slot.start) < 12 * MinutesPerHour
       /\ MinuteOfDay(slot.end) > 12 * MinutesPerHour

\* The manage link was verified and its alias, registered with the link's
\* own expiresAt, was resolved at the same instant.
ShortLinkFollowed ==
  /\ check.done
  /\ link.status = "signed"
  /\ aliasOp.op = "resolve" /\ aliasOp.at = check.at
  /\ aliasOp.alias = lastIssued.alias
  /\ lastIssued.token = link.token
  /\ lastIssued.expiresAt = link.payload.expiresAt

\* C39: alias and token expire together: at every instant at which a manage
\* token verifies, the alias registered for it with the token's own
\* expiresAt is still resolved by resolveAlias, the instant now = expiresAt
\* included.
C39_AliasLivesAsLongAsToken ==
  (ShortLinkFollowed /\ check.verified.kind = "payload")
  => /\ aliasOp.record # NoRecord
     /\ aliasOp.record.token = link.token

====
